---- MODULE Spec2Model ----
(***************************************************************************)
(* Storage engine of simple-sql-db (package backend) and the coordinator   *)
(* operations that drive it (package engine).  One table file is modelled  *)
(* at byte granularity: the header written by writeTableHeader, the dense  *)
(* fixed-width rows behind it, and the handle's cached counters.           *)
(***************************************************************************)
EXTENDS Integers, Sequences, FiniteSets, TLC

VARIABLES disk, t, last, log, mrw, th, openTables, fpos, child, handles

vars == <<disk, t, last, log, mrw, th, openTables, fpos, child, handles>>

(***************************************************************************)
(* Bounds of the model.                                                    *)
(***************************************************************************)
MaxRows == 3

(***************************************************************************)
(* Small helpers over byte sequences.                                      *)
(***************************************************************************)
\* a function over 1..n as a plain tuple
Tuple(f) == f \o <<>>

Zeros(n) == Tuple([i \in 1..n |-> 0])

Max(a, b) == IF a > b THEN a ELSE b

Min(a, b) == IF a < b THEN a ELSE b

\* the elements of s at the (ascending) positions in keep
RECURSIVE SelectSeq2(_, _, _)
SelectSeq2(s, keep, i) ==
    IF i > Len(s) THEN <<>>
    ELSE (IF i \in keep THEN <<s[i]>> ELSE <<>>) \o SelectSeq2(s, keep, i + 1)

RECURSIVE Concat(_)
Concat(ss) == IF Len(ss) = 0 THEN <<>> ELSE Head(ss) \o Concat(Tail(ss))

(***************************************************************************)
(* Primitive.Size                                                          *)
(***************************************************************************)
Primitives == {"string", "int", "float", "bool"}

Size(p) ==
    CASE p = "string" -> 1024
      [] p \in {"int", "float"} -> 8
      [] p = "bool" -> 1
      [] OTHER -> 0

(***************************************************************************)
(* Dynamically typed payloads (Go interface{}): a record of the dynamic    *)
(* type k and the payload v.  A string payload is its sequence of bytes,   *)
(* an int64 payload an integer, a float64 payload the integer-valued       *)
(* double of that value, a bool payload a BOOLEAN.                         *)
(***************************************************************************)
Nil == [k |-> "nil", v |-> 0]

StrV(s) == [k |-> "string", v |-> s]

IntV(i) == [k |-> "int64", v |-> i]

FloatV(f) == [k |-> "float64", v |-> f]

BoolV(b) == [k |-> "bool", v |-> b]

\* Go's == on two interface values: same dynamic type and same payload
IfaceEq(x, y) == x.k = y.k /\ x.v = y.v

\* payloads the model cannot represent decode to this value
OutOfRange == 1073741824

\* i64ToB: little-endian two's complement, for |val| < 2^23
i64ToB(val) ==
    LET u == IF val >= 0 THEN val ELSE val + 16777216
    IN Tuple([k \in 1..8 |->
          IF k = 1 THEN u % 256
          ELSE IF k = 2 THEN (u \div 256) % 256
          ELSE IF k = 3 THEN (u \div 65536) % 256
          ELSE IF val < 0 THEN 255 ELSE 0])

\* bToI64
bToI64(b) ==
    LET low == b[1] + 256 * b[2] + 65536 * b[3]
    IN IF (\A k \in 4..8 : b[k] = 0) /\ b[3] < 128 THEN low
       ELSE IF (\A k \in 4..8 : b[k] = 255) /\ b[3] >= 128 THEN low - 16777216
       ELSE OutOfRange

\* the two most significant bytes of the IEEE-754 binary64 form of the
\* integer-valued doubles -2.0 .. 2.0 (all lower bytes are zero)
F64Top(f) ==
    CASE f = 0 -> <<0, 0>>
      [] f = 1 -> <<240, 63>>
      [] f = 2 -> <<0, 64>>
      [] f = -1 -> <<240, 191>>
      [] f = -2 -> <<0, 192>>

\* f64ToB
f64ToB(val) == Tuple([k \in 1..8 |-> IF k = 7 THEN F64Top(val)[1]
                                      ELSE IF k = 8 THEN F64Top(val)[2] ELSE 0])

\* bToF64
bToF64(b) ==
    IF \E f \in -2..2 : f64ToB(f) = b
    THEN CHOOSE f \in -2..2 : f64ToB(f) = b
    ELSE OutOfRange

\* sToB: the string's bytes in a 1024-byte slot, NUL padded, cut at 1024
sToB(val) == Tuple([i \in 1..1024 |-> IF i <= Len(val) THEN val[i] ELSE 0])

\* bToS: the bytes before the first NUL
bToS(b) ==
    LET nul == {i \in 1..Len(b) : b[i] = 0}
        n == IF nul = {} THEN Len(b)
             ELSE (CHOOSE i \in nul : \A j \in nul : i <= j) - 1
    IN SubSeq(b, 1, n)

\* boolToB
boolToB(val) == IF val THEN <<1>> ELSE <<0>>

\* bToBool
bToBool(b) == b[1] = 1

\* anyToB
anyToB(val) ==
    CASE val.k = "string" -> sToB(val.v)
      [] val.k = "int64" -> i64ToB(val.v)
      [] val.k = "float64" -> f64ToB(val.v)
      [] val.k = "bool" -> boolToB(val.v)
      [] OTHER -> <<>>

\* bToAny
bToAny(b, as) ==
    CASE as = "string" -> StrV(bToS(b))
      [] as = "int" -> IntV(bToI64(b))
      [] as = "float" -> FloatV(bToF64(b))
      [] as = "bool" -> BoolV(bToBool(b))
      [] OTHER -> Nil

\* Value.Bytes: the type switch has no case for bool
Bytes(v) ==
    CASE v.Val.k = "string" -> sToB(v.Val.v)
      [] v.Val.k = "int64" -> i64ToB(v.Val.v)
      [] v.Val.k = "float64" -> f64ToB(v.Val.v)
      [] OTHER -> <<>>

\* the Value struct
Value(type, val, fieldName) == [Type |-> type, Val |-> val, FieldName |-> fieldName]

\* the Field struct
Field(name, type) == [Name |-> name, Type |-> type]

(***************************************************************************)
(* The backing file: its leading bytes are explicit, every byte from       *)
(* Len(bytes) up to size is zero (the tail writeTableHeader appends).      *)
(***************************************************************************)
NoFile == [exists |-> FALSE, bytes |-> <<>>, size |-> 0]

ByteAt(f, i) == IF i <= Len(f.bytes) THEN f.bytes[i] ELSE 0

\* os.File.ReadAt: n bytes from offset off, io.EOF when the file is shorter
ReadAt(f, off, n) ==
    IF off < 0 THEN [err |-> "negative offset", b |-> <<>>]
    ELSE IF n = 0 THEN [err |-> "", b |-> <<>>]
    ELSE IF off + n > f.size THEN [err |-> "EOF", b |-> <<>>]
    ELSE [err |-> "", b |-> Tuple([i \in 1..n |-> ByteAt(f, off + i)])]

\* os.File.WriteAt: rejects a negative offset, grows the file when needed
WriteAt(f, off, b) ==
    IF off < 0 THEN [err |-> "negative offset", f |-> f, n |-> 0]
    ELSE IF Len(b) = 0 THEN [err |-> "", f |-> f, n |-> 0]
    ELSE LET end == off + Len(b)
             n == Max(end, Len(f.bytes))
         IN [err |-> "",
             n |-> Len(b),
             f |-> [f EXCEPT
                      !.bytes = Tuple([i \in 1..n |->
                                         IF i > off /\ i <= end THEN b[i - off]
                                         ELSE ByteAt(f, i)]),
                      !.size = Max(end, f.size)]]

\* os.File.Truncate
Truncate(f, size) ==
    IF size < 0 THEN [err |-> "invalid argument", f |-> f]
    ELSE [err |-> "",
          f |-> [f EXCEPT !.bytes = SubSeq(f.bytes, 1, Min(size, Len(f.bytes))),
                          !.size = size]]

\* the bytes of the file as one sequence
FileBytes(f) == Tuple([i \in 1..f.size |-> ByteAt(f, i)])

(***************************************************************************)
(* Header: json.Marshal of the table struct (exported fields Name and      *)
(* Fields), as ASCII codes.                                                *)
(***************************************************************************)
Names == {"a", "b", "c", "t", "u", "z"}

NameText(n) ==
    CASE n = "a" -> <<97>>
      [] n = "b" -> <<98>>
      [] n = "c" -> <<99>>
      [] n = "t" -> <<116>>
      [] n = "u" -> <<117>>
      [] n = "z" -> <<122>>

TypeText(p) ==
    CASE p = "string" -> <<115, 116, 114, 105, 110, 103>>
      [] p = "int" -> <<105, 110, 116>>
      [] p = "float" -> <<102, 108, 111, 97, 116>>
      [] p = "bool" -> <<98, 111, 111, 108>>

Quoted(s) == <<34>> \o s \o <<34>>

jsonField(f) ==
    <<123>> \o Quoted(<<78, 97, 109, 101>>) \o <<58>> \o Quoted(NameText(f.Name))
    \o <<44>> \o Quoted(<<84, 121, 112, 101>>) \o <<58>> \o Quoted(TypeText(f.Type))
    \o <<125>>

RECURSIVE jsonFields(_)
jsonFields(fs) ==
    IF Len(fs) = 0 THEN <<>>
    ELSE IF Len(fs) = 1 THEN jsonField(fs[1])
    ELSE jsonField(fs[1]) \o <<44>> \o jsonFields(Tail(fs))

\* json.Marshal(table)
jsonMarshal(name, fields) ==
    <<123>> \o Quoted(<<78, 97, 109, 101>>) \o <<58>> \o Quoted(NameText(name))
    \o <<44>> \o Quoted(<<70, 105, 101, 108, 100, 115>>) \o <<58, 91>>
    \o jsonFields(fields) \o <<93, 125>>

\* json.Unmarshal into a table: the quoted strings of the text, in order, are
\* "Name", name, "Fields", then "Name", field name, "Type", type per field
jsonUnmarshal(text) ==
    LET q == {i \in 1..Len(text) : text[i] = 34}
        pos(k) == CHOOSE i \in q : Cardinality({j \in q : j <= i}) = k
        str(k) == SubSeq(text, pos(2 * k - 1) + 1, pos(2 * k) - 1)
        ns == Cardinality(q) \div 2
        nf == (ns - 3) \div 4
        known == /\ Cardinality(q) % 2 = 0
                 /\ ns >= 3
                 /\ (ns - 3) % 4 = 0
                 /\ \E n \in Names : NameText(n) = str(2)
                 /\ \A j \in 1..nf :
                       /\ \E n \in Names : NameText(n) = str(3 + 4 * j - 2)
                       /\ \E p \in Primitives : TypeText(p) = str(3 + 4 * j)
        name == CHOOSE n \in Names : NameText(n) = str(2)
        fields == Tuple([j \in 1..nf |->
                           Field(CHOOSE n \in Names : NameText(n) = str(3 + 4 * j - 2),
                                 CHOOSE p \in Primitives : TypeText(p) = str(3 + 4 * j))])
    IN IF known /\ jsonMarshal(name, fields) = text
       THEN [err |-> "", Name |-> name, Fields |-> fields]
       ELSE [err |-> "invalid json", Name |-> "", Fields |-> <<>>]

(***************************************************************************)
(* The table handle.                                                       *)
(***************************************************************************)
NoTable ==
    [st |-> "none", Name |-> "", Fields |-> <<>>, fileByteCount |-> 0,
     headerByteCount |-> 0, rowByteCount |-> 0, rowCount |-> 0]

RECURSIVE calculateRowSize(_)
calculateRowSize(fields) ==
    IF Len(fields) = 0 THEN 0
    ELSE Size(fields[1].Type) + calculateRowSize(Tail(fields))

\* table.FieldWithName: the position of the first field of that name, 0 if none
FieldWithName(tb, fieldName) ==
    LET hit == {i \in 1..Len(tb.Fields) : tb.Fields[i].Name = fieldName}
    IN IF hit = {} THEN 0 ELSE CHOOSE i \in hit : \A j \in hit : i <= j

\* byte offset of field j inside a row
RECURSIVE FieldOffset(_, _)
FieldOffset(fields, j) ==
    IF j <= 1 THEN 0 ELSE Size(fields[j - 1].Type) + FieldOffset(fields, j - 1)

(***************************************************************************)
(* tablFile.go: create and open.                                           *)
(***************************************************************************)
\* writeTableHeader with a length prefix that does not count its own 8 bytes
writeTableHeader_m(tb, f) ==
    LET data == jsonMarshal(tb.Name, tb.Fields)
        headerByteCount == Len(data)
        header == i64ToB(headerByteCount) \o data
    IN [f |-> [exists |-> TRUE, bytes |-> f.bytes \o header,
               size |-> f.size + Len(header) + 200 * 64],
        tb |-> [tb EXCEPT !.headerByteCount = headerByteCount,
                          !.fileByteCount = headerByteCount]]

\* table.writeTableHeader: the length prefix, the schema, then 200*64 zero
\* bytes; the cached counters count the prefix and the schema only
writeTableHeader(tb, f) ==
    LET data == jsonMarshal(tb.Name, tb.Fields)
        headerByteCount == Len(data) + 8
        header == i64ToB(headerByteCount) \o data
    IN [f |-> [exists |-> TRUE, bytes |-> f.bytes \o header,
               size |-> f.size + Len(header) + 200 * 64],
        tb |-> [tb EXCEPT !.headerByteCount = headerByteCount,
                          !.fileByteCount = headerByteCount]]

\* CreateTable that opens the file for writing whether or not it exists
CreateTableOp_m(f, name, fields) ==
    LET table == [st |-> "open", Name |-> name, Fields |-> fields,
                  fileByteCount |-> 0, headerByteCount |-> 0,
                  rowByteCount |-> calculateRowSize(fields), rowCount |-> 0]
        w == writeTableHeader(table, [exists |-> TRUE, bytes |-> <<>>, size |-> 0])
    IN [err |-> "", f |-> w.f, tb |-> w.tb]

\* CreateTable: createFile fails when the file exists
CreateTableOp(f, name, fields) ==
    IF f.exists
    THEN [err |-> "already exists", f |-> f, tb |-> NoTable]
    ELSE LET table == [st |-> "open", Name |-> name, Fields |-> fields,
                       fileByteCount |-> 0, headerByteCount |-> 0,
                       rowByteCount |-> calculateRowSize(fields), rowCount |-> 0]
             w == writeTableHeader(table, [exists |-> TRUE, bytes |-> <<>>, size |-> 0])
         IN [err |-> "", f |-> w.f, tb |-> w.tb]

\* readTableFile
readTableFile(f) ==
    LET sizeBytes == ReadAt(f, 0, 8)
        headerSize == bToI64(sizeBytes.b)
        header == ReadAt(f, 8, headerSize - 8)
        parsed == jsonUnmarshal(header.b)
        rowByteCount == calculateRowSize(parsed.Fields)
    IN IF sizeBytes.err # "" THEN [err |-> "EOF", tb |-> NoTable]
       ELSE IF headerSize < 8 \/ header.err # "" \/ parsed.err # ""
       THEN [err |-> "invalid header", tb |-> NoTable]
       ELSE IF rowByteCount = 0 THEN [err |-> "panic", tb |-> NoTable]
       ELSE [err |-> "",
             tb |-> [st |-> "open", Name |-> parsed.Name, Fields |-> parsed.Fields,
                     fileByteCount |-> f.size, headerByteCount |-> headerSize,
                     rowByteCount |-> rowByteCount,
                     rowCount |-> (f.size - headerSize) \div rowByteCount]]

\* OpenTable
OpenTableOp(f) ==
    IF ~f.exists THEN [err |-> "does not exist", tb |-> NoTable]
    ELSE readTableFile(f)

(***************************************************************************)
(* comparisons.go                                                          *)
(***************************************************************************)
compareEqual(v1, v2) == \A i \in 1..Len(v1) : v1[i] = v2[i]

compareLessThan(v1, v2) == \E i \in 1..Len(v1) : v1[i] < v2[i]

compareLessThanOrEqual(v1, v2) ==
    (\E i \in 1..Len(v1) : v1[i] < v2[i]) \/ (\A i \in 1..Len(v1) : v1[i] = v2[i])

compareGreaterThan(v1, v2) == \E i \in 1..Len(v1) : v1[i] > v2[i]

compareGreaterThanOrEqual(v1, v2) ==
    (\E i \in 1..Len(v1) : v1[i] > v2[i]) \/ (\A i \in 1..Len(v1) : v1[i] = v2[i])

\* compareValues, for slices of equal length (it panics otherwise)
compareValues(v1, operator, v2) ==
    CASE operator = "=" -> compareEqual(v1, v2)
      [] operator = "!=" -> ~compareEqual(v1, v2)
      [] operator = "<" -> compareLessThan(v1, v2)
      [] operator = "<=" -> compareLessThanOrEqual(v1, v2)
      [] operator = ">" -> compareGreaterThan(v1, v2)
      [] operator = ">=" -> compareGreaterThanOrEqual(v1, v2)
      [] OTHER -> FALSE

(***************************************************************************)
(* Filters and the scan.                                                   *)
(***************************************************************************)
\* the Filter struct (the embedded Value's Type and Val are promoted)
Filter(fieldName, operator, type, val) ==
    [FieldName |-> fieldName, Operator |-> operator, Type |-> type, Val |-> val,
     Vals |-> <<>>, RangeComparison |-> FALSE]

RangeFilter(fieldName, operator, type, vals) ==
    [FieldName |-> fieldName, Operator |-> operator, Type |-> type, Val |-> Nil,
     Vals |-> vals, RangeComparison |-> TRUE]

\* a validation loop without the check of a range filter's operator
RECURSIVE validateFilters_m(_, _)
validateFilters_m(tb, filters) ==
    IF Len(filters) = 0 THEN ""
    ELSE LET filter == filters[1]
             j == FieldWithName(tb, filter.FieldName)
         IN IF j = 0 THEN "does not exist"
            ELSE IF tb.Fields[j].Type # filter.Type THEN "is of type"
            ELSE validateFilters_m(tb, Tail(filters))

\* rowsThatMatch, validation loop: the error of the first bad filter
RECURSIVE validateFilters(_, _)
validateFilters(tb, filters) ==
    IF Len(filters) = 0 THEN ""
    ELSE LET filter == filters[1]
             j == FieldWithName(tb, filter.FieldName)
         IN IF j = 0 THEN "does not exist"
            ELSE IF tb.Fields[j].Type # filter.Type THEN "is of type"
            ELSE IF filter.RangeComparison /\ filter.Operator \notin {"=", "!="}
            THEN "range operator"
            ELSE validateFilters(tb, Tail(filters))

\* rowsThatMatch, the test of one filter on one cell
satisfiesFilter(cellBytes, filter) ==
    IF filter.RangeComparison
    THEN /\ \E k \in 1..Len(filter.Vals) :
               compareValues(cellBytes, filter.Operator, anyToB(filter.Vals[k]))
         /\ filter.Operator = "="
    ELSE compareValues(cellBytes, filter.Operator, anyToB(filter.Val))

cellOf(tb, rowBytes, j) ==
    SubSeq(rowBytes, FieldOffset(tb.Fields, j) + 1,
           FieldOffset(tb.Fields, j) + Size(tb.Fields[j].Type))

\* rowsThatMatch, the row loop body: every filter of every field holds
shouldAddRow(tb, rowBytes, filters) ==
    \A j \in 1..Len(tb.Fields) :
        \A k \in 1..Len(filters) :
            filters[k].FieldName = tb.Fields[j].Name
                => satisfiesFilter(cellOf(tb, rowBytes, j), filters[k])

decodeRow(tb, rowBytes, i) ==
    [index |-> i,
     Values |-> Tuple([j \in 1..Len(tb.Fields) |->
                         Value(tb.Fields[j].Type,
                               bToAny(cellOf(tb, rowBytes, j), tb.Fields[j].Type),
                               tb.Fields[j].Name)])]

rowBytesAt(tb, f, i) ==
    Tuple([k \in 1..tb.rowByteCount |->
             ByteAt(f, tb.headerByteCount + i * tb.rowByteCount + k)])

\* rowsThatMatch
rowsThatMatch(tb, f, filters) ==
    LET verr == validateFilters(tb, filters)
        hit == {i \in 0..(tb.rowCount - 1) : shouldAddRow(tb, rowBytesAt(tb, f, i), filters)}
        all == Tuple([i \in 1..tb.rowCount |-> i - 1])
        idx == SelectSeq2(all, {i + 1 : i \in hit}, 1)
    IN IF verr # "" THEN [err |-> verr, rows |-> <<>>]
       ELSE IF tb.rowCount > 0
               /\ tb.headerByteCount + tb.rowCount * tb.rowByteCount > f.size
       THEN [err |-> "could not read row", rows |-> <<>>]
       ELSE [err |-> "",
             rows |-> Tuple([k \in 1..Len(idx) |->
                               decodeRow(tb, rowBytesAt(tb, f, idx[k]), idx[k])])]

(***************************************************************************)
(* tablOperations.go: InsertRow, GetRows, DeleteRows, UpdateRows.          *)
(***************************************************************************)
\* valsMap[name]: the position of the last value carrying that field name
valsMap(values, name) ==
    LET hit == {i \in 1..Len(values) : values[i].FieldName = name}
    IN IF hit = {} THEN 0 ELSE CHOOSE i \in hit : \A j \in hit : i >= j

\* InsertRow, the row buffer: per field the keyed value's bytes or zeros,
\* then resliced to the buffer's capacity (rowByteCount)
insertBuffer(tb, values) ==
    LET cells == Tuple([j \in 1..Len(tb.Fields) |->
                          IF valsMap(values, tb.Fields[j].Name) # 0
                          THEN Bytes(values[valsMap(values, tb.Fields[j].Name)])
                          ELSE Zeros(Size(tb.Fields[j].Type))])
        b == Concat(cells)
    IN b \o Zeros(tb.rowByteCount - Len(b))

\* InsertRow
InsertRow(tb, f, values) ==
    IF Len(tb.Fields) < Len(values)
    THEN [err |-> "there are only n fields", n |-> 0, f |-> f, tb |-> tb]
    ELSE LET w == WriteAt(f, tb.fileByteCount, insertBuffer(tb, values))
         IN IF w.err # ""
            THEN [err |-> w.err, n |-> 0, f |-> f, tb |-> tb]
            ELSE [err |-> "", n |-> 1, f |-> w.f,
                  tb |-> [tb EXCEPT !.fileByteCount = @ + w.n, !.rowCount = @ + 1]]

\* contains
contains(slice, element) == \E i \in 1..Len(slice) : slice[i] = element

\* exclusive: the elements of s1 that are not in s2
exclusive(s1, s2) == SelectSeq2(s1, {i \in 1..Len(s1) : ~contains(s2, s1[i])}, 1)

\* GetRows; indexing the empty result of exclusive panics
GetRows(tb, f, fields, filters) ==
    LET tFieldNames == Tuple([i \in 1..Len(tb.Fields) |-> tb.Fields[i].Name])
        shouldSelectField == Tuple([i \in 1..Len(tb.Fields) |->
                                      Len(fields) = 0 \/ contains(fields, tFieldNames[i])])
        fieldsToSelectCount == Cardinality({i \in 1..Len(tb.Fields) : contains(fields, tFieldNames[i])})
        m == rowsThatMatch(tb, f, filters)
        keep == {j \in 1..Len(tb.Fields) : shouldSelectField[j]}
    IN IF Len(fields) # 0 /\ fieldsToSelectCount # Len(fields)
       THEN IF Len(exclusive(fields, tFieldNames)) = 0
            THEN [err |-> "panic", rows |-> <<>>]
            ELSE [err |-> "does not exist", rows |-> <<>>]
       ELSE IF m.err # "" THEN [err |-> m.err, rows |-> <<>>]
       ELSE [err |-> "",
             rows |-> Tuple([i \in 1..Len(m.rows) |->
                               [index |-> m.rows[i].index,
                                Values |-> SelectSeq2(m.rows[i].Values, keep, 1)]])]

\* DeleteRows, the chunk loop; start = -1 stands for the nil pointer, and
\* i counts from 1 so that shift = i
RECURSIVE buildChunks(_, _, _, _, _)
buildChunks(rows, i, start, chunks, rowCount) ==
    IF i > Len(rows) THEN chunks
    ELSE LET row == rows[i]
             st == IF start = -1 THEN row.index + 1 ELSE start
         IN IF i = Len(rows)
            THEN buildChunks(rows, i + 1, st,
                     Append(chunks, [start |-> st, end |-> rowCount - 1, shift |-> i]),
                     rowCount)
            ELSE IF rows[i + 1].index = row.index + 1
            THEN buildChunks(rows, i + 1, -1, chunks, rowCount)
            ELSE buildChunks(rows, i + 1, st,
                     Append(chunks, [start |-> st, end |-> rows[i + 1].index - 1, shift |-> i]),
                     rowCount)

\* DeleteRows, the split pass: one split at the midpoint of a chunk over 5 MiB
RECURSIVE splitChunks(_, _)
splitChunks(chunks, rowByteCount) ==
    IF Len(chunks) = 0 THEN <<>>
    ELSE LET current == chunks[1]
             rowCount == current.end - current.start + 1
             split == (current.end + current.start) \div 2
         IN (IF rowCount * rowByteCount > 1024 * 1024 * 5 /\ rowCount > 2
             THEN <<[start |-> current.start, end |-> split, shift |-> current.shift],
                    [start |-> split + 1, end |-> current.end, shift |-> current.shift]>>
             ELSE <<current>>)
            \o splitChunks(Tail(chunks), rowByteCount)

\* DeleteRows, the shift loop: ReadAt the chunk, WriteAt it shift rows lower
RECURSIVE shiftChunks(_, _, _)
shiftChunks(tb, f, chunks) ==
    IF Len(chunks) = 0 THEN [err |-> "", f |-> f]
    ELSE LET chunk == chunks[1]
             chunkSize == (chunk.end - chunk.start + 1) * tb.rowByteCount
             offset == chunk.start * tb.rowByteCount + tb.headerByteCount
             r == ReadAt(f, offset, chunkSize)
             w == WriteAt(f, offset - chunk.shift * tb.rowByteCount, r.b)
         IN IF r.err # "" THEN [err |-> r.err, f |-> f]
            ELSE IF w.err # "" THEN [err |-> w.err, f |-> f]
            ELSE shiftChunks(tb, w.f, Tail(chunks))

\* DeleteRows, the part under the exclusive lock: the shift loop, the
\* truncate by len(rows) rows and the cached counts
shiftAndTruncate(tb, f, rows, chunks) ==
    LET sh == shiftChunks(tb, f, chunks)
        bytesToTruncate == Len(rows) * tb.rowByteCount
        tr == Truncate(sh.f, tb.fileByteCount - bytesToTruncate)
    IN IF sh.err # "" THEN [err |-> sh.err, n |-> 0, f |-> sh.f, tb |-> tb]
       ELSE IF tr.err # "" THEN [err |-> tr.err, n |-> 0, f |-> sh.f, tb |-> tb]
       ELSE [err |-> "", n |-> Len(rows), f |-> tr.f,
             tb |-> [tb EXCEPT !.rowCount = @ - Len(rows),
                               !.fileByteCount = @ - bytesToTruncate]]

\* DeleteRows that reads the affected count after resetting rowCount
DeleteRows_m(tb, f, filters) ==
    IF Len(filters) = 0
    THEN LET tr == Truncate(f, tb.headerByteCount)
         IN IF tr.err # "" THEN [err |-> tr.err, n |-> 0, f |-> f, tb |-> tb]
            ELSE [err |-> "", n |-> 0, f |-> tr.f,
                  tb |-> [tb EXCEPT !.rowCount = 0, !.fileByteCount = tb.headerByteCount]]
    ELSE LET m == rowsThatMatch(tb, f, filters)
             chunks == splitChunks(buildChunks(m.rows, 1, -1, <<>>, tb.rowCount), tb.rowByteCount)
         IN IF m.err # "" THEN [err |-> m.err, n |-> 0, f |-> f, tb |-> tb]
            ELSE IF Len(m.rows) = 0 THEN [err |-> "", n |-> 0, f |-> f, tb |-> tb]
            ELSE shiftAndTruncate(tb, f, m.rows, chunks)

\* DeleteRows
DeleteRows(tb, f, filters) ==
    IF Len(filters) = 0
    THEN LET tr == Truncate(f, tb.headerByteCount)
         IN IF tr.err # "" THEN [err |-> tr.err, n |-> 0, f |-> f, tb |-> tb]
            ELSE [err |-> "", n |-> tb.rowCount, f |-> tr.f,
                  tb |-> [tb EXCEPT !.rowCount = 0, !.fileByteCount = tb.headerByteCount]]
    ELSE LET m == rowsThatMatch(tb, f, filters)
             chunks == splitChunks(buildChunks(m.rows, 1, -1, <<>>, tb.rowCount), tb.rowByteCount)
         IN IF m.err # "" THEN [err |-> m.err, n |-> 0, f |-> f, tb |-> tb]
            ELSE IF Len(m.rows) = 0 THEN [err |-> "", n |-> 0, f |-> f, tb |-> tb]
            ELSE shiftAndTruncate(tb, f, m.rows, chunks)

\* UpdateRows, the rebuilt bytes of one matched row
updatedRowBytes(tb, values, oldRow) ==
    Concat(Tuple([j \in 1..Len(tb.Fields) |->
                    IF valsMap(values, tb.Fields[j].Name) # 0
                    THEN Bytes(values[valsMap(values, tb.Fields[j].Name)])
                    ELSE Bytes(oldRow.Values[j])]))

\* UpdateRows, whether an overridden value differs from the old one
requiresUpdate(tb, values, oldRow) ==
    \E j \in 1..Len(tb.Fields) :
        /\ valsMap(values, tb.Fields[j].Name) # 0
        /\ ~IfaceEq(values[valsMap(values, tb.Fields[j].Name)].Val, oldRow.Values[j].Val)

\* UpdateRows, the write loop
RECURSIVE writeRows(_, _, _, _)
writeRows(tb, f, values, rows) ==
    IF Len(rows) = 0 THEN [err |-> "", f |-> f]
    ELSE LET w == WriteAt(f, rows[1].index * tb.rowByteCount + tb.headerByteCount,
                          updatedRowBytes(tb, values, rows[1]))
         IN IF w.err # "" THEN [err |-> w.err, f |-> f]
            ELSE writeRows(tb, w.f, values, Tail(rows))

\* UpdateRows
UpdateRows(tb, f, values, filters) ==
    LET m == rowsThatMatch(tb, f, filters)
        newRows == SelectSeq2(m.rows,
                       {i \in 1..Len(m.rows) : requiresUpdate(tb, values, m.rows[i])}, 1)
        w == writeRows(tb, f, values, newRows)
    IN IF m.err # "" THEN [err |-> m.err, n |-> 0, f |-> f]
       ELSE IF w.err # "" THEN [err |-> w.err, n |-> 0, f |-> w.f]
       ELSE [err |-> "", n |-> Len(newRows), f |-> w.f]

(***************************************************************************)
(* engine/language: literals and their coercion to a field's primitive.    *)
(* A literal is the text of an UntypedValue, as ASCII codes.               *)
(***************************************************************************)
\* the UntypedValue struct
UntypedValue(val, fieldName) == [Val |-> val, FieldName |-> fieldName]

\* the zero Value, Value{}
ZeroValue == Value("", Nil, "")

\* escapeQuotedString: drops one pair of enclosing double quotes; indexing
\* the empty string and slicing the one-character string "\"" panic
escapeQuotedString(s) ==
    IF Len(s) = 0 THEN [err |-> "panic", s |-> <<>>]
    ELSE IF s[1] = 34 /\ s[Len(s)] = 34
    THEN IF Len(s) = 1 THEN [err |-> "panic", s |-> <<>>]
         ELSE [err |-> "", s |-> SubSeq(s, 2, Len(s) - 1)]
    ELSE [err |-> "", s |-> s]

RECURSIVE digitsValue(_, _)
digitsValue(s, acc) ==
    IF Len(s) = 0 THEN acc ELSE digitsValue(Tail(s), 10 * acc + (Head(s) - 48))

\* strconv.Atoi on a short literal: an optional sign, then decimal digits
Atoi(s) ==
    LET signed == Len(s) > 0 /\ s[1] \in {43, 45}
        body == IF signed THEN Tail(s) ELSE s
    IN IF Len(body) = 0 \/ (\E i \in 1..Len(body) : body[i] \notin 48..57)
       THEN [err |-> "invalid syntax", v |-> 0]
       ELSE [err |-> "", v |-> IF signed /\ s[1] = 45 THEN 0 - digitsValue(body, 0)
                               ELSE digitsValue(body, 0)]

\* strconv.ParseFloat on the literals of the model: a decimal integer parses
\* to that value, text without a digit is a syntax error
ParseFloat(s) == Atoi(s)

\* NewValueForField: the switch has no case for bool and falls through to
\* Value{} with a nil error
NewValueForField(field, val) ==
    CASE field.Type = "string" ->
           LET e == escapeQuotedString(val)
           IN IF e.err # "" THEN [err |-> e.err, v |-> ZeroValue]
              ELSE [err |-> "", v |-> Value("string", StrV(e.s), field.Name)]
      [] field.Type = "int" ->
           LET a == Atoi(val)
           IN IF a.err # "" THEN [err |-> "could not parse int", v |-> ZeroValue]
              ELSE [err |-> "", v |-> Value("int", IntV(a.v), field.Name)]
      [] field.Type = "float" ->
           LET a == ParseFloat(val)
           IN IF a.err # "" THEN [err |-> "could not parse float", v |-> ZeroValue]
              ELSE [err |-> "", v |-> Value("float", FloatV(a.v), field.Name)]
      [] OTHER -> [err |-> "", v |-> ZeroValue]

(***************************************************************************)
(* engiOperations.go: the coordinator's insertRow and updateRows.          *)
(***************************************************************************)
\* SQLEngine.getTable: the cached handle, or the table opened from its file
getTable(tb, f) ==
    IF tb.st = "open" THEN [err |-> "", tb |-> tb] ELSE OpenTableOp(f)

\* the InsertArgs struct
InsertArgs(values, hasFieldNames) == [Values |-> values, HasFieldNames |-> hasFieldNames]

\* insertRow, first loop: the field of every keyed value, or the first
\* FieldWithName error
RECURSIVE keyedFields(_, _, _)
keyedFields(tb, uVals, acc) ==
    IF Len(uVals) = 0 THEN [err |-> "", iFields |-> acc]
    ELSE LET j == FieldWithName(tb, uVals[1].FieldName)
         IN IF j = 0 THEN [err |-> "does not exist", iFields |-> <<>>]
            ELSE keyedFields(tb, Tail(uVals), Append(acc, tb.Fields[j]))

\* insertRow, second loop: values[i] = NewValueForField(iFields[i], ...);
\* iFields[i] panics when there are more values than fields
RECURSIVE coerceValues(_, _, _, _)
coerceValues(iFields, uVals, i, values) ==
    IF i > Len(uVals) THEN [err |-> "", values |-> values]
    ELSE IF i > Len(iFields) THEN [err |-> "panic", values |-> values]
    ELSE LET r == NewValueForField(iFields[i], uVals[i].Val)
         IN IF r.err # "" THEN [err |-> r.err, values |-> values]
            ELSE coerceValues(iFields, uVals, i + 1, [values EXCEPT ![i] = r.v])

\* insertRow, the wrapped result of the storage call
insertRowResult(r) ==
    IF r.err # "" THEN [r EXCEPT !.err = "could not open insert row"] ELSE r

\* insertRow, from the coerced values c on
insertRowValues(tb, f, c) ==
    IF c.err # "" THEN [err |-> c.err, n |-> 0, f |-> f, tb |-> tb]
    ELSE insertRowResult(InsertRow(tb, f, c.values))

\* insertRow, from the fields to insert into, k, on
insertRowFields(tb, f, args, k) ==
    IF k.err # "" THEN [err |-> k.err, n |-> 0, f |-> f, tb |-> tb]
    ELSE insertRowValues(tb, f,
             coerceValues(k.iFields, args.Values, 1,
                          Tuple([i \in 1..Len(k.iFields) |-> ZeroValue])))

\* insertRow, from the result g of getTable on
insertRowOn(g, tb0, f, args) ==
    IF g.err # ""
    THEN [err |-> "could not open table file", n |-> 0, f |-> f, tb |-> tb0]
    ELSE insertRowFields(g.tb, f, args,
             IF args.HasFieldNames THEN keyedFields(g.tb, args.Values, <<>>)
             ELSE [err |-> "", iFields |-> g.tb.Fields])

\* SQLEngine.insertRow
insertRow(tb0, f, args) == insertRowOn(getTable(tb0, f), tb0, f, args)

\* the WhereClause struct; present = FALSE stands for the nil pointer
WhereClause(fieldName, operator, val) ==
    [present |-> TRUE, FieldName |-> fieldName, Operator |-> operator, Val |-> val]

NoWhere == [present |-> FALSE, FieldName |-> "", Operator |-> "", Val |-> <<>>]

\* filterFromWhereClause: no filter for a nil clause
filterFromWhereClause(whereClause, tb) ==
    IF ~whereClause.present THEN [err |-> "", filters |-> <<>>]
    ELSE LET j == FieldWithName(tb, whereClause.FieldName)
             r == NewValueForField(tb.Fields[j], whereClause.Val)
         IN IF j = 0 THEN [err |-> "does not exist", filters |-> <<>>]
            ELSE IF r.err # "" THEN [err |-> r.err, filters |-> <<>>]
            ELSE [err |-> "",
                  filters |-> <<Filter(tb.Fields[j].Name, whereClause.Operator,
                                       r.v.Type, r.v.Val)>>]

\* the UpdateArgs struct
UpdateArgs(values, filter) == [Values |-> values, Filter |-> filter]

\* updateRows, the loop over the overrides
RECURSIVE coerceOverrides(_, _, _)
coerceOverrides(tb, uVals, vals) ==
    IF Len(uVals) = 0 THEN [err |-> "", vals |-> vals]
    ELSE LET j == FieldWithName(tb, uVals[1].FieldName)
             r == NewValueForField(tb.Fields[j], uVals[1].Val)
         IN IF j = 0 THEN [err |-> "does not exist", vals |-> vals]
            ELSE IF r.err # "" THEN [err |-> r.err, vals |-> vals]
            ELSE coerceOverrides(tb, Tail(uVals), Append(vals, r.v))

\* updateRows, the result of the storage call
updateRowsResult(tb, r) == [err |-> r.err, n |-> r.n, f |-> r.f, tb |-> tb]

\* updateRows, from the filter w of the WHERE clause on
updateRowsFilter(tb, f, vals, w) ==
    IF w.err # "" THEN [err |-> w.err, n |-> 0, f |-> f, tb |-> tb]
    ELSE updateRowsResult(tb, UpdateRows(tb, f, vals, w.filters))

\* updateRows, from the coerced overrides c on
updateRowsVals(tb, f, args, c) ==
    IF c.err # "" THEN [err |-> c.err, n |-> 0, f |-> f, tb |-> tb]
    ELSE updateRowsFilter(tb, f, c.vals, filterFromWhereClause(args.Filter, tb))

\* updateRows, from the result g of getTable on
updateRowsOn(g, tb0, f, args) ==
    IF g.err # "" THEN [err |-> g.err, n |-> 0, f |-> f, tb |-> tb0]
    ELSE updateRowsVals(g.tb, f, args, coerceOverrides(g.tb, args.Values, <<>>))

\* SQLEngine.updateRows
updateRows(tb0, f, args) == updateRowsOn(getTable(tb0, f), tb0, f, args)

\* the DeleteArgs struct
DeleteArgs(filter) == [Filter |-> filter]

\* a deleteRows that deletes every row when the WHERE clause is rejected
deleteRowsFilter_m(tb, f, w) ==
    IF w.err # "" THEN [DeleteRows(tb, f, <<>>) EXCEPT !.err = w.err]
    ELSE DeleteRows(tb, f, w.filters)

\* deleteRows, from the filter w of the WHERE clause on
deleteRowsFilter(tb, f, w) ==
    IF w.err # "" THEN [err |-> w.err, n |-> 0, f |-> f, tb |-> tb]
    ELSE DeleteRows(tb, f, w.filters)

\* deleteRows, from the result g of getTable on
deleteRowsOn(g, tb0, f, args) ==
    IF g.err # "" THEN [err |-> g.err, n |-> 0, f |-> f, tb |-> tb0]
    ELSE deleteRowsFilter(g.tb, f, filterFromWhereClause(args.Filter, g.tb))

\* SQLEngine.deleteRows
deleteRows(tb0, f, args) == deleteRowsOn(getTable(tb0, f), tb0, f, args)

\* the SelectArgs struct of a statement over one table: FieldNames are the
\* names listed for that table
SelectArgs(fieldNames, allFields, filter) ==
    [FieldNames |-> fieldNames, AllFields |-> allFields, Filter |-> filter]

\* decimal digits of a natural number
RECURSIVE digitsOf(_)
digitsOf(n) ==
    IF n < 10 THEN <<48 + n>> ELSE Append(digitsOf(n \div 10), 48 + (n % 10))

\* fmt.Sprintf("%d", v)
FormatInt(v) == IF v < 0 THEN <<45>> \o digitsOf(-v) ELSE digitsOf(v)

\* strconv.FormatFloat(v, 'f', -1, 64) of an integral value
FormatFloat(v) == FormatInt(v)

\* selectRows, the type switch that renders a cell: it has a case for
\* string, int64 and float64, and leaves the empty string for anything else
formatCell(val) ==
    CASE val.k = "string" -> <<34>> \o val.v \o <<34>>
      [] val.k = "int64" -> FormatInt(val.v)
      [] val.k = "float64" -> FormatFloat(val.v)
      [] OTHER -> <<>>

\* selectRows, the rendering loop
formatRows(rows) ==
    Tuple([i \in 1..Len(rows) |->
             Tuple([j \in 1..Len(rows[i].Values) |-> formatCell(rows[i].Values[j].Val)])])

\* the helper selectRows, after the filter w of the WHERE clause
selectRowsFilter(tb, f, fieldsToSelect, w) ==
    IF w.err # "" THEN [err |-> w.err, rows |-> <<>>]
    ELSE GetRows(tb, f, fieldsToSelect, w.filters)

\* selectRows, the rendering of the storage result r
selectRowsResult(tb, f, r) ==
    IF r.err # "" THEN [err |-> r.err, n |-> 0, f |-> f, tb |-> tb, rows |-> <<>>]
    ELSE [err |-> "", n |-> Len(r.rows), f |-> f, tb |-> tb, rows |-> formatRows(r.rows)]

\* selectRows, from the result g of getTable on; there are no joins
selectRowsOn(g, tb0, f, args) ==
    IF g.err # "" THEN [err |-> g.err, n |-> 0, f |-> f, tb |-> tb0, rows |-> <<>>]
    ELSE selectRowsResult(g.tb, f,
             selectRowsFilter(g.tb, f,
                 IF args.AllFields THEN <<>> ELSE args.FieldNames,
                 filterFromWhereClause(args.Filter, g.tb)))

\* SQLEngine.selectRows
selectRows(tb0, f, args) == selectRowsOn(getTable(tb0, f), tb0, f, args)

\* SQLEngine.Process around Execute: an error comes back with a nil result;
\* a panic is recovered by the deferred function, which sets no result, so
\* the statement returns (nil, nil)
Process(r) ==
    IF r.err = "panic" THEN [val |-> "nil", err |-> ""]
    ELSE IF r.err # "" THEN [val |-> "nil", err |-> r.err]
    ELSE [val |-> "value", err |-> ""]

(***************************************************************************)
(* engine/language: the parser. A statement is a sequence of ASCII codes;  *)
(* indices into it count from 0 as in the code.                            *)
(***************************************************************************)
\* isEmptyString: no character matches \S
isEmptyString(s) == \A i \in 1..Len(s) : s[i] \in {9, 10, 12, 13, 32}

\* strings.ReplaceAll, and Regexp.ReplaceAllString of a literal pattern:
\* the non-overlapping occurrences of old, from the left
RECURSIVE ReplaceAll(_, _, _)
ReplaceAll(s, old, new) ==
    IF Len(s) < Len(old) THEN s
    ELSE IF SubSeq(s, 1, Len(old)) = old
    THEN new \o ReplaceAll(SubSeq(s, Len(old) + 1, Len(s)), old, new)
    ELSE <<s[1]>> \o ReplaceAll(Tail(s), old, new)

\* cleanString: newlines to spaces, one pass over pairs of spaces, then no
\* space beside "=" or ","
cleanString(s) ==
    ReplaceAll(ReplaceAll(ReplaceAll(ReplaceAll(ReplaceAll(ReplaceAll(s,
        <<10>>, <<32>>), <<32, 32>>, <<32>>), <<32, 61>>, <<61>>), <<61, 32>>, <<61>>),
        <<32, 44>>, <<44>>), <<44, 32>>, <<44>>)

\* asKeyword: strings.ToLower, on ASCII
asKeyword(s) == Tuple([i \in 1..Len(s) |-> IF s[i] >= 65 /\ s[i] <= 90 THEN s[i] + 32 ELSE s[i]])

\* strings.Split on a one-character separator
RECURSIVE Split(_, _, _)
Split(s, sep, cur) ==
    IF Len(s) = 0 THEN <<cur>>
    ELSE IF s[1] = sep THEN <<cur>> \o Split(Tail(s), sep, <<>>)
    ELSE Split(Tail(s), sep, Append(cur, s[1]))

\* the keywords, as their lower-case text
Keyword(k) ==
    CASE k = "select" -> <<115, 101, 108, 101, 99, 116>>
      [] k = "from" -> <<102, 114, 111, 109>>
      [] k = "as" -> <<97, 115>>
      [] k = "table" -> <<116, 97, 98, 108, 101>>
      [] k = "create" -> <<99, 114, 101, 97, 116, 101>>
      [] k = "insert" -> <<105, 110, 115, 101, 114, 116>>
      [] k = "into" -> <<105, 110, 116, 111>>
      [] k = "values" -> <<118, 97, 108, 117, 101, 115>>
      [] k = "delete" -> <<100, 101, 108, 101, 116, 101>>
      [] k = "update" -> <<117, 112, 100, 97, 116, 101>>
      [] k = "set" -> <<115, 101, 116>>
      [] k = "where" -> <<119, 104, 101, 114, 101>>

isKeyword(s) ==
    asKeyword(s) \in {Keyword("select"), Keyword("from"), Keyword("as"), Keyword("table"), Keyword("create"),
                      Keyword("insert"), Keyword("into"), Keyword("values"), Keyword("where"),
                      Keyword("delete"), Keyword("update"), Keyword("set")}

\* isSymbol: one of ; * , ( ) = < > !
isSymbol(r) == r \in {59, 42, 44, 40, 41, 61, 60, 62, 33}

\* isQuote: ' or "
isQuote(r) == r \in {39, 34}

\* the token struct; t is the token type
Token(s, type) == [s |-> s, t |-> type]

\* captureParenthesisGroup: the text up to the first ")" after start
captureParenthesisGroup(s, start) ==
    IF \A i \in (start + 1)..(Len(s) - 1) : s[i + 1] # 41
    THEN [err |-> "unclosed parenthesis", group |-> <<>>, end |-> 0]
    ELSE [err |-> "",
          group |-> SubSeq(s, start + 2,
                       CHOOSE i \in (start + 1)..(Len(s) - 1) :
                          s[i + 1] = 41 /\ \A j \in (start + 1)..(i - 1) : s[j + 1] # 41),
          end |-> CHOOSE i \in (start + 1)..(Len(s) - 1) :
                     s[i + 1] = 41 /\ \A j \in (start + 1)..(i - 1) : s[j + 1] # 41]

\* captureQuoteGroup, its loop from index i on: a backslash takes the next
\* character as it is
RECURSIVE captureQuoteGroup(_, _, _, _)
captureQuoteGroup(s, i, escaped, captured) ==
    IF i >= Len(s) THEN [err |-> "unclosed quotes", group |-> <<>>, end |-> 0]
    ELSE IF escaped THEN captureQuoteGroup(s, i + 1, FALSE, Append(captured, s[i + 1]))
    ELSE IF s[i + 1] = 92 THEN captureQuoteGroup(s, i + 1, TRUE, captured)
    ELSE IF isQuote(s[i + 1]) THEN [err |-> "", group |-> captured, end |-> i]
    ELSE captureQuoteGroup(s, i + 1, FALSE, Append(captured, s[i + 1]))

\* captureSymbolGroup: the run of symbols from start on; end is its last
\* index, or len(s) when the run reaches the end of the string
RECURSIVE captureSymbolGroup(_, _)
captureSymbolGroup(s, start) ==
    IF start >= Len(s) THEN [err |-> "", group |-> <<>>, end |-> start]
    ELSE IF ~isSymbol(s[start + 1]) THEN [err |-> "", group |-> <<>>, end |-> start - 1]
    ELSE [err |-> "",
          group |-> <<s[start + 1]>> \o captureSymbolGroup(s, start + 1).group,
          end |-> captureSymbolGroup(s, start + 1).end]

\* split, the closure addCurrentToken
addCurrentToken(tokens, currentToken) ==
    IF Len(currentToken) # 0 THEN Append(tokens, Token(currentToken, "value")) ELSE tokens

\* split, the loop over the cleaned statement; a captured group g becomes a
\* token of the given type, except the group "," which is dropped
RECURSIVE splitLoop(_, _, _, _)
RECURSIVE splitGroup(_, _, _, _)
splitGroup(s, g, tokens, type) ==
    IF g.err # "" THEN [err |-> "could not split statement", tokens |-> <<>>]
    ELSE splitLoop(s, g.end + 1, <<>>,
             IF type = "symbol" /\ g.group = <<44>> THEN tokens
             ELSE Append(tokens, Token(g.group, type)))

splitLoop(s, i, currentToken, tokens) ==
    IF i >= Len(s) THEN [err |-> "", tokens |-> addCurrentToken(tokens, currentToken)]
    ELSE IF s[i + 1] = 40
    THEN splitGroup(s, captureParenthesisGroup(s, i),
                    addCurrentToken(tokens, currentToken), "paren")
    ELSE IF isQuote(s[i + 1])
    THEN splitGroup(s, captureQuoteGroup(s, i + 1, FALSE, <<>>),
                    addCurrentToken(tokens, currentToken), "quote")
    ELSE IF isSymbol(s[i + 1])
    THEN splitGroup(s, captureSymbolGroup(s, i),
                    addCurrentToken(tokens, currentToken), "symbol")
    ELSE IF s[i + 1] = 32
    THEN splitLoop(s, i + 1, <<>>, addCurrentToken(tokens, currentToken))
    ELSE splitLoop(s, i + 1, Append(currentToken, s[i + 1]), tokens)

\* split
split(statement) ==
    IF isEmptyString(statement) THEN [err |-> "could not split statement", tokens |-> <<>>]
    ELSE splitLoop(cleanString(statement), 0, <<>>, <<>>)

\* getCommand: the command named by the first two keywords; "" is the nil
\* pointer
getCommand(keywords) ==
    IF Len(keywords) = 0 THEN ""
    ELSE IF keywords[1] = Keyword("create")
    THEN (IF Len(keywords) > 1 /\ keywords[2] = Keyword("table") THEN "CreateTable" ELSE "")
    ELSE IF keywords[1] = Keyword("select") THEN "Select"
    ELSE IF keywords[1] = Keyword("insert")
    THEN (IF Len(keywords) > 1 /\ keywords[2] = Keyword("into") THEN "Insert" ELSE "")
    ELSE IF keywords[1] = Keyword("delete")
    THEN (IF Len(keywords) > 1 /\ keywords[2] = Keyword("from") THEN "Delete" ELSE "")
    ELSE IF keywords[1] = Keyword("update") THEN "Update"
    ELSE ""

\* the Operator a text stands for, "" when Operator.IsValid rejects it
operatorOf(text) ==
    CASE text = <<61>> -> "="
      [] text = <<33, 61>> -> "!="
      [] text = <<60>> -> "<"
      [] text = <<60, 61>> -> "<="
      [] text = <<62>> -> ">"
      [] text = <<62, 61>> -> ">="
      [] OTHER -> ""

\* append's capacity for a slice of n tokens grown one at a time
RECURSIVE capOf(_, _)
capOf(n, c) == IF c >= n THEN c ELSE capOf(n, IF c = 0 THEN 1 ELSE 2 * c)

\* what the capture functions hand back when they fail or panic
NoArgs(err) == [err |-> err, args |-> <<>>, used |-> 0]

\* parseField: "name type" split on spaces into exactly two parts
parseField(s) ==
    IF Len(Split(s, 32, <<>>)) # 2 THEN [err |-> "is not acceptable", field |-> <<>>]
    ELSE IF \A p \in Primitives : TypeText(p) # asKeyword(Split(s, 32, <<>>)[2])
    THEN [err |-> "is not a valid data type", field |-> <<>>]
    ELSE [err |-> "",
          field |-> [Name |-> Split(s, 32, <<>>)[1], Type |-> asKeyword(Split(s, 32, <<>>)[2])]]

\* stripTableNameFromField: "table.field" becomes "field"
stripTableNameFromField(fieldName, tableName) ==
    IF Len(Split(fieldName, 46, <<>>)) = 2 /\ Split(fieldName, 46, <<>>)[1] = tableName
    THEN Split(fieldName, 46, <<>>)[2]
    ELSE fieldName

\* captureCreateTableArgs, the fields of the parenthesis group
createTableFields(rawFields) ==
    IF \E j \in 1..Len(rawFields) : parseField(rawFields[j]).err # ""
    THEN [err |-> "could not parse field", fields |-> <<>>]
    ELSE [err |-> "",
          fields |-> Tuple([j \in 1..Len(rawFields) |-> parseField(rawFields[j]).field])]

\* captureCreateTableArgs
captureCreateTableArgs(truncated) ==
    IF Len(truncated) < 2 THEN NoArgs("not enough arguments")
    ELSE IF truncated[1].t # "value" THEN NoArgs("invalid table name")
    ELSE IF truncated[2].t # "paren" THEN NoArgs("invalid fields declaration")
    ELSE IF createTableFields(Split(cleanString(truncated[2].s), 44, <<>>)).err # ""
    THEN NoArgs("could not parse field")
    ELSE [err |-> "", used |-> 2,
          args |-> [TableName |-> truncated[1].s,
                    Fields |-> createTableFields(
                                   Split(cleanString(truncated[2].s), 44, <<>>)).fields]]

\* captureInsertArgs, from the VALUES keyword at truncated[tokensUsed] on;
\* indexing past the tokens or past the field names panics
insertValues(truncated, tokensUsed, hasFieldNames, fieldNames) ==
    IF tokensUsed >= Len(truncated) THEN NoArgs("panic")
    ELSE IF truncated[tokensUsed + 1].t # "value"
            \/ asKeyword(truncated[tokensUsed + 1].s) # Keyword("values")
    THEN NoArgs("expecting VALUES keyword")
    ELSE IF tokensUsed + 1 >= Len(truncated) THEN NoArgs("panic")
    ELSE IF truncated[tokensUsed + 2].t # "paren" THEN NoArgs("invalid values syntax")
    ELSE IF hasFieldNames
            /\ Len(Split(cleanString(truncated[tokensUsed + 2].s), 44, <<>>)) > Len(fieldNames)
    THEN NoArgs("panic")
    ELSE [err |-> "", used |-> tokensUsed + 2,
          args |-> [TableName |-> truncated[1].s,
                    Values |->
                       Tuple([i \in 1..Len(Split(cleanString(truncated[tokensUsed + 2].s), 44, <<>>)) |->
                          [Val |-> Split(cleanString(truncated[tokensUsed + 2].s), 44, <<>>)[i],
                           FieldName |-> IF hasFieldNames
                                         THEN stripTableNameFromField(fieldNames[i], truncated[1].s)
                                         ELSE <<>>]]),
                    HasFieldNames |-> hasFieldNames]]

\* captureInsertArgs
captureInsertArgs(truncated) ==
    IF Len(truncated) < 3 THEN NoArgs("not enough arguments")
    ELSE IF truncated[1].t # "value" THEN NoArgs("invalid syntax")
    ELSE IF truncated[2].t = "paren"
    THEN IF \E i, j \in 1..Len(Split(truncated[2].s, 44, <<>>)) :
                i < j /\ Split(truncated[2].s, 44, <<>>)[i] = Split(truncated[2].s, 44, <<>>)[j]
         THEN NoArgs("cannot insert into same field twice")
         ELSE insertValues(truncated, 2, TRUE, Split(truncated[2].s, 44, <<>>))
    ELSE insertValues(truncated, 1, FALSE, <<>>)

\* searchWhereClause: the clause and the count it hands back, which is the
\* index after the clause and not the number of tokens the clause took;
\* cap is the capacity of truncated, and a token between its length and its
\* capacity is the zero token
tokenAt(truncated, i) ==
    IF i < Len(truncated) THEN truncated[i + 1] ELSE Token(<<>>, "value")

searchWhereClause(truncated, tokensUsed, cap) ==
    IF tokensUsed > Len(truncated) THEN [err |-> "panic", present |-> FALSE, clause |-> <<>>, temp |-> 0]
    ELSE IF tokensUsed # Len(truncated) /\ asKeyword(truncated[tokensUsed + 1].s) = Keyword("where")
    THEN IF Len(truncated) < tokensUsed + 3
         THEN [err |-> "incomplete WHERE clause", present |-> FALSE, clause |-> <<>>, temp |-> 0]
         ELSE IF tokensUsed + 4 > cap
         THEN [err |-> "panic", present |-> FALSE, clause |-> <<>>, temp |-> 0]
         ELSE IF tokenAt(truncated, tokensUsed + 1).t # "value"
         THEN [err |-> "could not parse WHERE clause", present |-> FALSE, clause |-> <<>>, temp |-> 0]
         ELSE IF operatorOf(tokenAt(truncated, tokensUsed + 2).s) = ""
         THEN [err |-> "is not a valid operator", present |-> FALSE, clause |-> <<>>, temp |-> 0]
         ELSE [err |-> "", present |-> TRUE,
               clause |-> [Val |-> tokenAt(truncated, tokensUsed + 3).s,
                           FieldName |-> tokenAt(truncated, tokensUsed + 1).s,
                           Operator |-> tokenAt(truncated, tokensUsed + 2).s],
               temp |-> tokensUsed + 4]
    ELSE [err |-> "", present |-> FALSE, clause |-> <<>>, temp |-> 0]

\* the capture functions' tail: the WHERE clause w found at tokensUsed
withWhere(args, tokensUsed, w) ==
    IF w.err = "panic" THEN NoArgs("panic")
    ELSE IF w.err # "" THEN NoArgs("could not parse WHERE clause")
    ELSE [err |-> "", used |-> tokensUsed + w.temp,
          args |-> [args EXCEPT !.Filter = [present |-> w.present, clause |-> w.clause]]]

\* captureSelectArgs, the loop up to FROM: the number of tokens before it
RECURSIVE selectFieldCount(_, _)
selectFieldCount(truncated, tokensUsed) ==
    IF tokensUsed >= Len(truncated) THEN tokensUsed
    ELSE IF asKeyword(truncated[tokensUsed + 1].s) = Keyword("from") THEN tokensUsed
    ELSE selectFieldCount(truncated, tokensUsed + 1)

\* captureSelectArgs, from the table name at truncated[tokensUsed] on
selectFrom(truncated, tokensUsed, fieldNames, cap) ==
    IF tokensUsed >= Len(truncated) THEN NoArgs("panic")
    ELSE withWhere(
             [TableName |-> truncated[tokensUsed + 1].s,
              FieldNames |-> IF fieldNames = <<<<42>>>> THEN <<>>
                             ELSE Tuple([i \in 1..Len(fieldNames) |->
                                           stripTableNameFromField(fieldNames[i],
                                               truncated[tokensUsed + 1].s)]),
              AllFields |-> fieldNames = <<<<42>>>>,
              Filter |-> <<>>],
             tokensUsed + 1,
             searchWhereClause(truncated, tokensUsed + 1, cap))

\* captureSelectArgs
captureSelectArgs(truncated, cap) ==
    selectFrom(truncated, selectFieldCount(truncated, 0) + 1,
               Concat(Tuple([i \in 1..selectFieldCount(truncated, 0) |->
                               Split(truncated[i].s, 44, <<>>)])),
               cap)

\* captureDeleteArgs
captureDeleteArgs(truncated, cap) ==
    IF Len(truncated) < 1 THEN NoArgs("not enough arguments")
    ELSE IF truncated[1].t # "value" THEN NoArgs("invalid table name")
    ELSE withWhere([TableName |-> truncated[1].s, Filter |-> <<>>], 1,
                   searchWhereClause(truncated, 1, cap))

\* parseEquation: field, operator, value
parseEquation(tokens) ==
    IF Len(tokens) < 3 THEN "not enough arguments"
    ELSE IF Len(tokens) # 3 THEN "invalid syntax"
    ELSE IF tokens[1].t # "value" THEN "invalid first operand"
    ELSE IF operatorOf(tokens[2].s) = "" THEN "is not a valid operator"
    ELSE IF tokens[3].t \notin {"value", "quote"} THEN "invalid value to compare to"
    ELSE ""

\* captureUpdateArgs, the loop up to WHERE: the number of tokens after SET
RECURSIVE updateValueCount(_, _)
updateValueCount(truncated, i) ==
    IF i + 2 >= Len(truncated) THEN i
    ELSE IF asKeyword(truncated[i + 3].s) = Keyword("where") THEN i
    ELSE updateValueCount(truncated, i + 1)

\* captureUpdateArgs, the tokens of value number k (from 0), three at a time
valTokens(truncated, n, k) ==
    SubSeq(truncated, 3 + 3 * k, Min(2 + 3 * k + 3, 2 + n))

\* captureUpdateArgs, from the n tokens after SET on
updateValues(truncated, n, cap) ==
    IF \E k \in 0..((n + 2) \div 3 - 1) : parseEquation(valTokens(truncated, n, k)) # ""
    THEN NoArgs("could not parse value")
    ELSE IF \E k \in 0..((n + 2) \div 3 - 1) : valTokens(truncated, n, k)[2].s # <<61>>
    THEN NoArgs("value statement must use =")
    ELSE withWhere(
             [TableName |-> truncated[1].s,
              Values |-> Tuple([k \in 1..((n + 2) \div 3) |->
                            [Val |-> valTokens(truncated, n, k - 1)[3].s,
                             FieldName |-> stripTableNameFromField(
                                               valTokens(truncated, n, k - 1)[1].s,
                                               truncated[1].s)]]),
              Filter |-> <<>>],
             2 + n,
             searchWhereClause(truncated, 2 + n, cap))

\* captureUpdateArgs
captureUpdateArgs(truncated, cap) ==
    IF Len(truncated) < 3 THEN NoArgs("not enough arguments")
    ELSE IF truncated[1].t # "value" THEN NoArgs("invalid syntax")
    ELSE IF truncated[2].t # "value" \/ asKeyword(truncated[2].s) # Keyword("set")
    THEN NoArgs("invalid syntax")
    ELSE updateValues(truncated, updateValueCount(truncated, 0), cap)

\* captureArguments: the arguments after token start, and the index of the
\* last token they took
captureArgumentsOf(forCommand, truncated, cap) ==
    CASE forCommand = "CreateTable" -> captureCreateTableArgs(truncated)
      [] forCommand = "Insert" -> captureInsertArgs(truncated)
      [] forCommand = "Select" -> captureSelectArgs(truncated, cap)
      [] forCommand = "Delete" -> captureDeleteArgs(truncated, cap)
      [] forCommand = "Update" -> captureUpdateArgs(truncated, cap)

captureArguments(forCommand, tokens, start) ==
    [err |-> captureArgumentsOf(forCommand, SubSeq(tokens, start + 2, Len(tokens)),
                                capOf(Len(tokens), 0) - (start + 1)).err,
     args |-> captureArgumentsOf(forCommand, SubSeq(tokens, start + 2, Len(tokens)),
                                 capOf(Len(tokens), 0) - (start + 1)).args,
     end |-> start + captureArgumentsOf(forCommand, SubSeq(tokens, start + 2, Len(tokens)),
                                        capOf(Len(tokens), 0) - (start + 1)).used]

\* Parse, the loop over the tokens: cmd is the result of the last getCommand
\* and args that of the last captureArguments
RECURSIVE parseLoop(_, _, _, _, _)
RECURSIVE parseCaptured(_, _, _, _, _)
parseCaptured(tokens, i, currentKeywords, cmd, a) ==
    IF a.err = "panic" THEN [err |-> "panic", cmd |-> "", args |-> <<>>]
    ELSE IF a.err # "" THEN [err |-> "invalid arguments", cmd |-> "", args |-> <<>>]
    ELSE parseLoop(tokens, a.end + 1, currentKeywords, cmd, a.args)

parseKeywords(tokens, i, currentKeywords) ==
    IF isKeyword(tokens[i + 1].s) THEN Append(currentKeywords, asKeyword(tokens[i + 1].s))
    ELSE currentKeywords

parseLoop(tokens, i, currentKeywords, cmd, args) ==
    IF i >= Len(tokens) THEN [err |-> "", cmd |-> cmd, args |-> args]
    ELSE IF getCommand(parseKeywords(tokens, i, currentKeywords)) = ""
    THEN parseLoop(tokens, i + 1, parseKeywords(tokens, i, currentKeywords), "", args)
    ELSE parseCaptured(tokens, i, parseKeywords(tokens, i, currentKeywords),
             getCommand(parseKeywords(tokens, i, currentKeywords)),
             captureArguments(getCommand(parseKeywords(tokens, i, currentKeywords)), tokens, i))

\* Parse
Parse(statement) ==
    IF split(statement).err # "" THEN [err |-> "could not split statement", cmd |-> "", args |-> <<>>]
    ELSE parseLoop(split(statement).tokens, 0, <<>>, "", <<>>)

(***************************************************************************)
(* Process: Validate, Parse and Execute of a statement text. The parser's  *)
(* names and types are texts; the coordinator's operations take them as    *)
(* the names the storage model uses. The model holds the file of one       *)
(* table, t.                                                               *)
(***************************************************************************)
\* a name of the parsed arguments as a name of the model; "?" is any name
\* the model has no text for
nameOf(text) ==
    IF text = <<>> THEN ""
    ELSE IF \E n \in Names : NameText(n) = text THEN CHOOSE n \in Names : NameText(n) = text
    ELSE "?"

typeOf(text) == CHOOSE p \in Primitives : TypeText(p) = text

whereOf(filter) ==
    IF filter.present
    THEN WhereClause(nameOf(filter.clause.FieldName), operatorOf(filter.clause.Operator),
                     filter.clause.Val)
    ELSE NoWhere

valuesOf(values) ==
    Tuple([i \in 1..Len(values) |-> UntypedValue(values[i].Val, nameOf(values[i].FieldName))])

\* a result without rows, as Execute hands it on
noRows(r) == [err |-> r.err, n |-> r.n, f |-> r.f, tb |-> r.tb, rows |-> <<>>]

\* SQLEngine.createTable, from the result r of CreateTable on: the new
\* handle is cached on success only
createTable(tb0, f, r) ==
    IF r.err # "" THEN [err |-> r.err, n |-> 0, f |-> f, tb |-> tb0, rows |-> <<>>]
    ELSE [err |-> "", n |-> 0, f |-> r.f, tb |-> r.tb, rows |-> <<>>]

\* getTable for a table other than t: there is no such file
onTable(tableName, tb0, f, r) ==
    IF nameOf(tableName) = "t" THEN r
    ELSE [err |-> "does not exist", n |-> 0, f |-> f, tb |-> tb0, rows |-> <<>>]

\* SQLEngine.Execute
Execute(tb0, f, cmd, args) ==
    CASE cmd = "CreateTable" ->
           createTable(tb0, f,
               CreateTableOp(f, nameOf(args.TableName),
                   Tuple([j \in 1..Len(args.Fields) |->
                            Field(nameOf(args.Fields[j].Name), typeOf(args.Fields[j].Type))])))
      [] cmd = "Select" ->
           onTable(args.TableName, tb0, f,
               selectRows(tb0, f,
                   SelectArgs(Tuple([i \in 1..Len(args.FieldNames) |-> nameOf(args.FieldNames[i])]),
                              args.AllFields, whereOf(args.Filter))))
      [] cmd = "Insert" ->
           onTable(args.TableName, tb0, f,
               noRows(insertRow(tb0, f, InsertArgs(valuesOf(args.Values), args.HasFieldNames))))
      [] cmd = "Delete" ->
           onTable(args.TableName, tb0, f,
               noRows(deleteRows(tb0, f, DeleteArgs(whereOf(args.Filter)))))
      [] cmd = "Update" ->
           onTable(args.TableName, tb0, f,
               noRows(updateRows(tb0, f, UpdateArgs(valuesOf(args.Values), whereOf(args.Filter)))))

\* Process, from the result p of Parse on: a nil command is dereferenced,
\* which panics
processParsed(tb0, f, p) ==
    IF p.err # "" THEN [err |-> p.err, n |-> 0, f |-> f, tb |-> tb0, rows |-> <<>>]
    ELSE IF p.cmd = "" THEN [err |-> "panic", n |-> 0, f |-> f, tb |-> tb0, rows |-> <<>>]
    ELSE Execute(tb0, f, p.cmd, p.args)

\* Process of a statement text, before the deferred recover: Validate is
\* split, then Parse, then Execute
ProcessStatement(tb0, f, statement) ==
    IF split(statement).err # ""
    THEN [err |-> split(statement).err, n |-> 0, f |-> f, tb |-> tb0, rows |-> <<>>]
    ELSE processParsed(tb0, f, Parse(statement))

(***************************************************************************)
(* Inputs of the storage operations.                                       *)
(***************************************************************************)
Schemas ==
    { <<Field("a", "int")>>,
      <<Field("a", "int"), Field("b", "bool")>>,
      <<Field("b", "string")>>,
      <<Field("a", "float")>> }

ValsOf(type) ==
    CASE type = "int" -> {IntV(0), IntV(1)}
      [] type = "string" -> {StrV(<<>>), StrV(<<120>>)}
      [] type = "float" -> {FloatV(0), FloatV(1)}
      [] type = "bool" -> {BoolV(FALSE), BoolV(TRUE)}

\* the non-zero value of each primitive
NonZero(type) ==
    CASE type = "int" -> IntV(1)
      [] type = "string" -> StrV(<<120>>)
      [] type = "float" -> FloatV(1)
      [] type = "bool" -> BoolV(TRUE)

\* one value per field, in field order
RECURSIVE FullRows(_)
FullRows(fields) ==
    IF Len(fields) = 0 THEN {<<>>}
    ELSE {<<Value(fields[1].Type, v, fields[1].Name)>> \o r :
             v \in ValsOf(fields[1].Type), r \in FullRows(Tail(fields))}

\* a single keyed value of one field
KeyedOne(fields) ==
    UNION {{<<Value(fields[j].Type, v, fields[j].Name)>> : v \in ValsOf(fields[j].Type)} :
             j \in 1..Len(fields)}

\* the value lists handed to InsertRow: full rows, one keyed value, a value
\* of a field the table does not have, one value too many, no value
InsertInputs(fields) ==
    FullRows(fields)
    \cup (IF Len(fields) > 1 THEN KeyedOne(fields) ELSE {})
    \cup {<<Value("int", IntV(1), "z")>>}
    \cup {r \o <<Value("int", IntV(1), "z")>> : r \in {CHOOSE x \in FullRows(fields) : TRUE}}
    \cup {<<>>}

\* single-value filters with = and != on every field and value, and the
\* ordering operators on the first field
SingleFilters(fields) ==
    UNION {{<<Filter(fields[j].Name, op, fields[j].Type, v)>> :
               op \in {"=", "!="}, v \in ValsOf(fields[j].Type)} : j \in 1..Len(fields)}
    \cup {<<Filter(fields[1].Name, op, fields[1].Type, v)>> :
             op \in {"<", ">="}, v \in {NonZero(fields[1].Type)}}

\* range filters on the first field
RangeFilters(fields) ==
    LET vs == ValsOf(fields[1].Type)
        v1 == CHOOSE x \in vs : TRUE
        v2 == CHOOSE x \in vs : x # v1
    IN {<<RangeFilter(fields[1].Name, op, fields[1].Type, vals)>> :
           op \in {"=", "!="}, vals \in {<<>>, <<v1>>, <<v2>>, <<v1, v2>>}}

\* filters that validation rejects: unknown field, wrong primitive, range
\* comparison with an ordering operator
BadFilters(fields) ==
    { <<Filter("z", "=", "int", IntV(0))>>,
      <<Filter(fields[1].Name, "=", IF fields[1].Type = "string" THEN "int" ELSE "string",
               IF fields[1].Type = "string" THEN IntV(0) ELSE StrV(<<>>))>>,
      <<RangeFilter(fields[1].Name, "<", fields[1].Type, <<>>)>>,
      <<Filter(fields[1].Name, "=", fields[1].Type, CHOOSE x \in ValsOf(fields[1].Type) : TRUE),
        Filter("z", "=", "int", IntV(0))>> }

\* two filters at once
PairFilters(fields) ==
    LET v == CHOOSE x \in ValsOf(fields[1].Type) : TRUE
        w == CHOOSE x \in ValsOf(fields[Len(fields)].Type) : TRUE
    IN {<<Filter(fields[1].Name, "=", fields[1].Type, v),
          Filter(fields[Len(fields)].Name, "!=", fields[Len(fields)].Type, w)>>}

FilterLists(fields) ==
    {<<>>} \cup SingleFilters(fields) \cup RangeFilters(fields)
    \cup BadFilters(fields) \cup PairFilters(fields)

\* the filter lists used together with a non-trivial second input
FewFilterLists(fields) ==
    {<<>>} \cup {fl \in SingleFilters(fields) : fl[1].Operator = "="}

\* requested field lists: all, each one, reversed, repeated, unknown
FieldLists(fields) ==
    {<<>>, <<"z">>, <<fields[1].Name, "z">>, <<fields[1].Name, fields[1].Name>>}
    \cup {<<fields[j].Name>> : j \in 1..Len(fields)}
    \cup {<<fields[Len(fields)].Name, fields[1].Name>>}

\* overrides handed to UpdateRows: one keyed value, one per field, or a
\* string with a zero byte inside for a string field
UpdateInputs(fields) ==
    KeyedOne(fields) \cup {CHOOSE r \in FullRows(fields) : TRUE}
    \cup {<<Value("string", StrV(<<120, 0, 121>>), fields[j].Name)>> :
             j \in {i \in 1..Len(fields) : fields[i].Type = "string"}}

(***************************************************************************)
(* Inputs of the coordinator's statements.                                 *)
(***************************************************************************)
\* two literals of each primitive: 0 and 1, "" and "x", false and true
LitsOf(type) ==
    CASE type = "int" -> {<<48>>, <<49>>}
      [] type = "float" -> {<<48>>, <<49>>}
      [] type = "string" -> {<<34, 34>>, <<34, 120, 34>>}
      [] type = "bool" -> {<<102, 97, 108, 115, 101>>, <<116, 114, 117, 101>>}

\* one literal per field, in field order, without field names
RECURSIVE FullLits(_)
FullLits(fields) ==
    IF Len(fields) = 0 THEN {<<>>}
    ELSE {<<UntypedValue(l, "")>> \o r :
             l \in LitsOf(fields[1].Type), r \in FullLits(Tail(fields))}

\* one literal keyed by the name of one field
KeyedLits(fields) ==
    UNION {{<<UntypedValue(l, fields[j].Name)>> : l \in LitsOf(fields[j].Type)} :
             j \in 1..Len(fields)}

\* INSERT statements: positional with one literal per field, with one literal
\* too many, with a literal for the first field only, with a literal that
\* does not parse; keyed with one field, with a field the table lacks
InsertStatements(fields) ==
    IF Len(fields) = 0 THEN {InsertArgs(<<UntypedValue(<<49>>, "")>>, FALSE)}
    ELSE {InsertArgs(v, FALSE) : v \in FullLits(fields)}
         \cup {InsertArgs(v \o <<UntypedValue(<<49>>, "")>>, FALSE) :
                  v \in {CHOOSE x \in FullLits(fields) : TRUE}}
         \cup {InsertArgs(<<v[1]>>, FALSE) : v \in {CHOOSE x \in FullLits(fields) : TRUE}}
         \cup {InsertArgs(<<UntypedValue(<<>>, "")>>, FALSE)}
         \cup {InsertArgs(v, TRUE) : v \in KeyedLits(fields)}
         \cup {InsertArgs(<<UntypedValue(<<49>>, "z")>>, TRUE)}

\* UPDATE statements: one override f = v with WHERE g = w, one override
\* without WHERE, an override of a field the table lacks, an override with
\* a literal that does not parse
UpdateStatements(fields) ==
    IF Len(fields) = 0 THEN {UpdateArgs(<<UntypedValue(<<49>>, "a")>>, NoWhere)}
    ELSE {UpdateArgs(v, WhereClause(w[1].FieldName, "=", w[1].Val)) :
             v \in KeyedLits(fields), w \in KeyedLits(fields)}
         \cup {UpdateArgs(v, NoWhere) : v \in {CHOOSE x \in KeyedLits(fields) : TRUE}}
         \cup {UpdateArgs(<<UntypedValue(<<49>>, "z")>>, NoWhere),
               UpdateArgs(<<UntypedValue(<<120>>, fields[1].Name)>>, NoWhere)}

\* DELETE statements: without WHERE, with WHERE f = v on the first field, on
\* the last field, on a field the table lacks, and with a literal that does
\* not parse
DeleteStatements(fields) ==
    IF Len(fields) = 0 THEN {DeleteArgs(NoWhere)}
    ELSE {DeleteArgs(NoWhere)}
         \cup {DeleteArgs(WhereClause(fields[1].Name, "=", l)) : l \in LitsOf(fields[1].Type)}
         \cup {DeleteArgs(WhereClause(fields[Len(fields)].Name, "=", l)) :
                  l \in {CHOOSE x \in LitsOf(fields[Len(fields)].Type) : TRUE}}
         \cup {DeleteArgs(WhereClause("z", "=", <<49>>)),
               DeleteArgs(WhereClause(fields[1].Name, "=", <<120>>))}

\* SELECT statements: every field, the last field only, and every field
\* with WHERE f = v on the first field
SelectStatements(fields) ==
    IF Len(fields) = 0 THEN {SelectArgs(<<>>, TRUE, NoWhere)}
    ELSE {SelectArgs(<<>>, TRUE, NoWhere),
          SelectArgs(<<fields[Len(fields)].Name>>, FALSE, NoWhere)}
         \cup {SelectArgs(<<>>, TRUE, WhereClause(fields[1].Name, "=", l)) :
                  l \in {CHOOSE x \in LitsOf(fields[1].Type) : TRUE}}

(***************************************************************************)
(* Statement texts: a statement is a list of pieces, each a word or a      *)
(* parenthesis group, written with a gap between the pieces, a pad just    *)
(* inside the parentheses and, or not, a semicolon at the end.             *)
(***************************************************************************)
\* the pieces of a statement: the texts in words, those at the positions in
\* groups inside parentheses
Pieces(words, groups) ==
    Tuple([i \in 1..Len(words) |-> [s |-> words[i], paren |-> i \in groups]])

\* the statements: two or so of each command kind, then statements without
\* a command head, without FROM, with a value too many, with a WHERE
\* followed by two tokens, one and none, with the string literals "xy",
\* "x, y" and "x = y", with an open parenthesis, with a WHERE field qualified by the
\* statement's table and by another one, and the empty statement
Statements ==
    { Pieces(<<Keyword("create"), Keyword("table"), NameText("t"),
               NameText("a") \o <<32>> \o TypeText("int")>>, {4}),
      Pieces(<<Keyword("select"), <<42>>, Keyword("from"), NameText("t")>>, {}),
      Pieces(<<Keyword("select"), NameText("a"), Keyword("from"), NameText("t"),
               Keyword("where"), NameText("a"), <<61>>, <<49>>>>, {}),
      Pieces(<<Keyword("insert"), Keyword("into"), NameText("t"), Keyword("values"),
               <<48>>>>, {5}),
      Pieces(<<Keyword("insert"), Keyword("into"), NameText("t"), Keyword("values"),
               <<49>>>>, {5}),
      Pieces(<<Keyword("insert"), Keyword("into"), NameText("t"), NameText("a"),
               Keyword("values"), <<49>>>>, {4, 6}),
      Pieces(<<Keyword("delete"), Keyword("from"), NameText("t")>>, {}),
      Pieces(<<Keyword("delete"), Keyword("from"), NameText("t"),
               Keyword("where"), NameText("a"), <<61>>, <<48>>>>, {}),
      Pieces(<<Keyword("update"), NameText("t"), Keyword("set"),
               NameText("a"), <<61>>, <<49>>>>, {}),
      Pieces(<<Keyword("update"), NameText("t"), Keyword("set"),
               NameText("a"), <<61>>, <<48>>,
               Keyword("where"), NameText("a"), <<61>>, <<49>>>>, {}),
      Pieces(<<Keyword("select"), <<42>>, Keyword("from"), NameText("t"),
               Keyword("where"), NameText("t") \o <<46>> \o NameText("a"), <<61>>, <<49>>>>, {}),
      Pieces(<<Keyword("delete"), Keyword("from"), NameText("t"),
               Keyword("where"), NameText("z") \o <<46>> \o NameText("a"), <<61>>, <<48>>>>, {}),
      Pieces(<<NameText("z")>>, {}),
      Pieces(<<Keyword("from"), NameText("t")>>, {}),
      Pieces(<<Keyword("select"), NameText("a")>>, {}),
      Pieces(<<Keyword("insert"), Keyword("into"), NameText("t"), Keyword("values"),
               <<49, 44, 49>>>>, {5}),
      Pieces(<<Keyword("delete"), Keyword("from"), NameText("t"),
               Keyword("where"), NameText("a"), <<61>>>>, {}),
      Pieces(<<Keyword("delete"), Keyword("from"), NameText("t"),
               Keyword("where"), NameText("a")>>, {}),
      Pieces(<<Keyword("select"), <<42>>, Keyword("from"), NameText("t"),
               Keyword("where")>>, {}),
      Pieces(<<Keyword("insert"), Keyword("into"), NameText("t"), Keyword("values"),
               Quoted(<<120, 121>>)>>, {5}),
      Pieces(<<Keyword("insert"), Keyword("into"), NameText("t"), Keyword("values"),
               Quoted(<<120, 44, 32, 121>>)>>, {5}),
      Pieces(<<Keyword("delete"), Keyword("from"), NameText("t"),
               Keyword("where"), NameText("a"), <<61>>, Quoted(<<120, 32, 61, 32, 121>>)>>, {}),
      Pieces(<<Keyword("create"), Keyword("table"), NameText("t"),
               <<40>> \o NameText("a") \o <<32>> \o TypeText("int")>>, {}),
      <<>> }

\* the gap is one space, two, three or a newline; the pad nothing or a space
StatementInputs ==
    {[pieces |-> p, gap |-> g, pad |-> d, semi |-> s] :
        p \in Statements, g \in {<<32>>, <<32, 32>>, <<32, 32, 32>>, <<10>>},
        d \in {<<>>, <<32>>}, s \in BOOLEAN}

RECURSIVE Render(_, _, _)
Render(pieces, gap, pad) ==
    IF Len(pieces) = 0 THEN <<>>
    ELSE (IF pieces[1].paren THEN <<40>> \o pad \o pieces[1].s \o pad \o <<41>>
          ELSE pieces[1].s)
         \o (IF Len(pieces) = 1 THEN <<>> ELSE gap \o Render(Tail(pieces), gap, pad))

\* the statement text of an input
Text(input) ==
    Render(input.pieces, input.gap, input.pad) \o (IF input.semi THEN <<59>> ELSE <<>>)

\* the same statement with one space between the pieces and no pad
Normalised(input) == [input EXCEPT !.gap = <<32>>, !.pad = <<>>]

(***************************************************************************)
(* State: the file on disk, the coordinator's handle, the result of the    *)
(* call in progress (with the state it started from) and the full rows     *)
(* inserted since CreateTable while nothing else has touched the table.    *)
(***************************************************************************)
Idle ==
    [op |-> "", err |-> "", n |-> 0, rows |-> <<>>, values |-> <<>>,
     filters |-> <<>>, fields |-> <<>>, args |-> <<>>, val |-> "", pre |-> <<>>]

Call(op, err, n, rows, values, filters, fields) ==
    [op |-> op, err |-> err, n |-> n, rows |-> rows, values |-> values,
     filters |-> filters, fields |-> fields, args |-> <<>>, val |-> "",
     pre |-> [disk |-> disk, t |-> t, log |-> log]]

\* a statement run through the coordinator: its arguments and the pair
\* (result, error) that Process hands back
Statement(op, args, r) ==
    [Call(op, Process(r).err, IF Process(r).val = "nil" THEN 0 ELSE r.n,
          <<>>, <<>>, <<>>, <<>>)
       EXCEPT !.args = args, !.val = Process(r).val]

NoLog == [fresh |-> FALSE, fields |-> <<>>, rows |-> <<>>]

\* table.mrw, a sync.RWMutex: the goroutine holding it exclusively (0 for
\* none) and the goroutines holding it shared
Unlocked == [w |-> 0, r |-> {}]

\* the tables besides t that the coordinator can hold in e.openTables; of
\* their handles the model keeps whether the file is open
OtherTables == {"u", "v"}

\* the handles OpenTable has made for table t in a coordinator, and the one
\* its map holds for the name (0: no entry)
NoHandles == [tabs |-> <<>>, entry |-> 0]

\* one of two goroutines calling into the same table handle: the call, the
\* place it has reached, its local rows and chunks, its results, and the
\* file and handle as they were when both calls started
NoCall ==
    [op |-> "", values |-> <<>>, filters |-> <<>>, pc |-> "idle",
     rows |-> <<>>, chunks |-> <<>>, err |-> "", n |-> 0, pre |-> <<>>, buf |-> <<>>]

Init ==
    /\ disk = NoFile
    /\ t = NoTable
    /\ last = Idle
    /\ log = NoLog
    /\ mrw = Unlocked
    /\ th = <<NoCall, NoCall>>
    /\ openTables = [n \in OtherTables |-> "none"]
    /\ fpos = 0
    /\ child = [disk |-> NoFile, t |-> NoTable]
    /\ handles = NoHandles

\* the caller takes the result; the next statement can start
Return ==
    /\ UNCHANGED <<mrw, th, openTables, fpos, child, handles>>
    /\ last.op # ""
    /\ last' = Idle
    /\ UNCHANGED <<disk, t, log>>

\* engine createTable: the created handle replaces the cached one on success
CreateTable(fields) ==
    /\ UNCHANGED <<mrw, th, openTables, fpos, child, handles>>
    /\ last.op = ""
    /\ LET r == CreateTableOp(disk, "t", fields)
       IN /\ disk' = r.f
          /\ t' = IF r.err = "" THEN r.tb ELSE t
          /\ log' = IF r.err = "" THEN [fresh |-> TRUE, fields |-> fields, rows |-> <<>>]
                    ELSE log
          /\ last' = Call("CreateTable", r.err, 0, <<>>, <<>>, <<>>, fields)

\* OpenTable: a handle read back from the file replaces the one in use
OpenTable ==
    /\ UNCHANGED <<mrw, th, openTables, fpos, child, handles>>
    /\ last.op = ""
    /\ LET r == OpenTableOp(disk)
       IN /\ t' = IF r.err = "" THEN r.tb ELSE t
          /\ last' = Call("OpenTable", r.err, 0, <<>>, <<>>, <<>>, <<>>)
    /\ log' = NoLog
    /\ UNCHANGED disk

\* table.Cleanup: closes the file
Cleanup ==
    /\ UNCHANGED <<mrw, th, openTables, fpos, child, handles>>
    /\ last.op = ""
    /\ t.st = "open"
    /\ t' = [t EXCEPT !.st = "closed"]
    /\ last' = Call("Cleanup", "", 0, <<>>, <<>>, <<>>, <<>>)
    /\ UNCHANGED <<disk, log>>

Ready == last.op = "" /\ t.st = "open" /\ t.rowCount <= MaxRows

InsertRowStep(values) ==
    /\ UNCHANGED <<mrw, th, openTables, fpos, child, handles>>
    /\ t.rowCount < MaxRows
    /\ LET r == InsertRow(t, disk, values)
       IN /\ disk' = r.f
          /\ t' = r.tb
          /\ log' = IF log.fresh /\ r.err = "" /\ values \in FullRows(t.Fields)
                    THEN [log EXCEPT !.rows = Append(@, values)]
                    ELSE NoLog
          /\ last' = Call("InsertRow", r.err, r.n, <<>>, values, <<>>, <<>>)

GetRowsStep(fields, filters) ==
    /\ UNCHANGED <<mrw, th, openTables, fpos, child, handles>>
    /\ LET r == GetRows(t, disk, fields, filters)
       IN last' = Call("GetRows", r.err, 0, r.rows, <<>>, filters, fields)
    /\ UNCHANGED <<disk, t, log>>

DeleteRowsStep(filters) ==
    /\ UNCHANGED <<mrw, th, openTables, fpos, child, handles>>
    /\ LET r == DeleteRows(t, disk, filters)
       IN /\ disk' = r.f
          /\ t' = r.tb
          /\ last' = Call("DeleteRows", r.err, r.n, <<>>, <<>>, filters, <<>>)
    /\ log' = NoLog

UpdateRowsStep(values, filters) ==
    /\ UNCHANGED <<mrw, th, openTables, fpos, child, handles>>
    /\ LET r == UpdateRows(t, disk, values, filters)
       IN /\ disk' = r.f
          /\ last' = Call("UpdateRows", r.err, r.n, <<>>, values, filters, <<>>)
    /\ log' = NoLog
    /\ UNCHANGED t

\* the coordinator can take a statement: it holds no handle yet, or a
\* handle that is still open
Serving == last.op = "" /\ t.st # "closed" /\ t.rowCount <= MaxRows

\* the statement's effect r on the file and on the cached handle
Executed(op, args, r) ==
    /\ UNCHANGED <<mrw, th, openTables, fpos, child, handles>>
    /\ disk' = r.f
    /\ t' = r.tb
    /\ last' = Statement(op, args, r)
    /\ log' = NoLog

\* an INSERT statement through Process, Execute and insertRow
InsertStatement(args) ==
    /\ t.rowCount < MaxRows
    /\ Executed("insertRow", args, insertRow(t, disk, args))

\* an UPDATE statement through Process, Execute and updateRows
UpdateStatement(args) == Executed("updateRows", args, updateRows(t, disk, args))

\* a DELETE statement through Process, Execute and deleteRows
DeleteStatement(args) == Executed("deleteRows", args, deleteRows(t, disk, args))

\* the rendered rows r of a SELECT statement, handed back by Process
Selected(args, r) ==
    /\ UNCHANGED <<mrw, th, openTables, fpos, child, handles>>
    /\ t' = r.tb
    /\ last' = [Statement("selectRows", args, r)
                  EXCEPT !.rows = IF Process(r).val = "nil" THEN <<>> ELSE r.rows]
    /\ log' = NoLog
    /\ UNCHANGED disk

\* a SELECT statement through Process, Execute and selectRows
SelectStatement(args) == Selected(args, selectRows(t, disk, args))

Next ==
    \/ Return
    \/ \E fields \in Schemas : CreateTable(fields)
    \/ OpenTable
    \/ Cleanup
    \/ Ready /\ \E values \in InsertInputs(t.Fields) : InsertRowStep(values)
    \/ Ready /\ \E fields \in FieldLists(t.Fields) : GetRowsStep(fields, <<>>)
    \/ Ready /\ \E filters \in FilterLists(t.Fields) : GetRowsStep(<<>>, filters)
    \/ Ready /\ \E filters \in FilterLists(t.Fields) : DeleteRowsStep(filters)
    \/ Ready /\ \E values \in UpdateInputs(t.Fields),
                    filters \in FewFilterLists(t.Fields) \cup BadFilters(t.Fields) :
                   UpdateRowsStep(values, filters)
    \/ Serving /\ \E args \in InsertStatements(t.Fields) : InsertStatement(args)
    \/ Serving /\ \E args \in UpdateStatements(t.Fields) : UpdateStatement(args)
    \/ Serving /\ \E args \in DeleteStatements(t.Fields) : DeleteStatement(args)
    \/ Serving /\ \E args \in SelectStatements(t.Fields) : SelectStatement(args)

Spec == Init /\ [][Next]_vars

(***************************************************************************)
(* The coordinator fed with statement texts.                               *)
(***************************************************************************)
\* the effect r of the statement on the file and on the cached handle, and
\* the pair (result, error) that Process hands back
Processed(input, r) ==
    /\ UNCHANGED <<mrw, th, openTables, fpos, child, handles>>
    /\ disk' = r.f
    /\ t' = r.tb
    /\ last' = [Statement("Process", input, r)
                  EXCEPT !.rows = IF Process(r).val = "nil" THEN <<>> ELSE r.rows]
    /\ log' = NoLog

\* SQLEngine.Process of one statement text
ProcessStep(input) ==
    /\ Serving
    /\ Parse(Text(input)).cmd = "Insert" => t.rowCount < MaxRows
    /\ Processed(input, ProcessStatement(t, disk, Text(input)))

ProcNext ==
    \/ Return
    \/ \E input \in StatementInputs : ProcessStep(input)

ProcSpec == Init /\ [][ProcNext]_vars

(***************************************************************************)
(* Two goroutines on one table handle: goroutine 1 calls DeleteRows,       *)
(* UpdateRows or InsertRow, goroutine 2 calls InsertRow or DeleteRows      *)
(* without filters, so that at most one of them scans.  A goroutine takes  *)
(* one step per lock operation and per read of the handle's counters       *)
(* outside the lock; what it does while it holds the lock is one step,     *)
(* since no other goroutine can touch the file or the counters meanwhile.  *)
(***************************************************************************)
\* an InsertRow that writes without taking the lock
entry_m(tb, op, values, filters) ==
    IF op = "InsertRow"
    THEN IF Len(tb.Fields) < Len(values)
         THEN [pc |-> "done", err |-> "there are only n fields"]
         ELSE [pc |-> "write", err |-> ""]
    ELSE IF op = "DeleteRows" /\ Len(filters) = 0 THEN [pc |-> "lock", err |-> ""]
    ELSE IF validateFilters(tb, filters) # ""
    THEN [pc |-> "done", err |-> validateFilters(tb, filters)]
    ELSE [pc |-> "rlock", err |-> ""]

\* the code before the first lock operation: InsertRow checks the number of
\* values and goes for Lock, DeleteRows without filters goes for Lock,
\* rowsThatMatch validates the filters and goes for RLock
entry(tb, op, values, filters) ==
    IF op = "InsertRow"
    THEN IF Len(tb.Fields) < Len(values)
         THEN [pc |-> "done", err |-> "there are only n fields"]
         ELSE [pc |-> "lock", err |-> ""]
    ELSE IF op = "DeleteRows" /\ Len(filters) = 0 THEN [pc |-> "lock", err |-> ""]
    ELSE IF validateFilters(tb, filters) # ""
    THEN [pc |-> "done", err |-> validateFilters(tb, filters)]
    ELSE [pc |-> "rlock", err |-> ""]

Go(op, values, filters) ==
    [NoCall EXCEPT !.op = op, !.values = values, !.filters = filters,
                   !.pc = entry(t, op, values, filters).pc,
                   !.err = entry(t, op, values, filters).err,
                   !.pre = [disk |-> disk, t |-> t]]

\* both calls are made at once on an open handle; the model follows one
\* such pair per table, up to the return of both calls
Start(op, values, filters, op2, row) ==
    /\ UNCHANGED <<openTables, fpos, child, handles>>
    /\ t.rowCount + Cardinality({o \in {<<1, op>>, <<2, op2>>} : o[2] = "InsertRow"}) <= MaxRows
    /\ th[1].pc = "idle"
    /\ th' = <<Go(op, values, filters), Go(op2, row, <<>>)>>
    /\ log' = NoLog
    /\ UNCHANGED <<disk, t, last, mrw>>

\* t.mrw.RLock() in rowsThatMatch: waits while a goroutine holds the lock
\* exclusively
RLock(k) ==
    /\ UNCHANGED <<openTables, fpos, child, handles>>
    /\ th[k].pc = "rlock"
    /\ mrw.w = 0
    /\ mrw' = [mrw EXCEPT !.r = @ \cup {k}]
    /\ th' = [th EXCEPT ![k].pc = "scan"]
    /\ UNCHANGED <<disk, t, last, log>>

\* the rows a call keeps from its scan: DeleteRows all of them, UpdateRows
\* those that differ from the overrides
scanned(h, m) ==
    IF h.op = "UpdateRows"
    THEN SelectSeq2(m.rows, {i \in 1..Len(m.rows) : requiresUpdate(t, h.values, m.rows[i])}, 1)
    ELSE m.rows

\* where a call goes after its scan: back to the caller on an error, for
\* DeleteRows on no matching row, and for GetRows; DeleteRows to its chunk
\* loop, UpdateRows to Lock
afterScan(h, m) ==
    IF m.err # "" \/ (h.op = "DeleteRows" /\ Len(m.rows) = 0) THEN "done"
    ELSE IF h.op = "DeleteRows" THEN "chunks"
    ELSE IF h.op = "GetRows" THEN "done"
    ELSE "lock"

\* a scan that returns without RUnlock
Scan_m(k) ==
    /\ UNCHANGED <<openTables, fpos, child, handles>>
    /\ th[k].pc = "scan"
    /\ LET m == rowsThatMatch(t, disk, th[k].filters)
       IN th' = [th EXCEPT ![k].pc = afterScan(th[k], m),
                           ![k].err = m.err,
                           ![k].rows = scanned(th[k], m)]
    /\ UNCHANGED <<disk, t, last, log, mrw>>

\* the scan of rowsThatMatch under the shared lock, up to the deferred RUnlock
Scan(k) ==
    /\ UNCHANGED <<openTables, fpos, child, handles>>
    /\ th[k].pc = "scan"
    /\ LET m == rowsThatMatch(t, disk, th[k].filters)
       IN th' = [th EXCEPT ![k].pc = afterScan(th[k], m),
                           ![k].err = m.err,
                           ![k].rows = scanned(th[k], m)]
    /\ mrw' = [mrw EXCEPT !.r = @ \ {k}]
    /\ UNCHANGED <<disk, t, last, log>>

\* DeleteRows between the scan and Lock: the chunk loop reads t.rowCount
\* while it holds no lock
Chunks(k) ==
    /\ UNCHANGED <<openTables, fpos, child, handles>>
    /\ th[k].pc = "chunks"
    /\ th' = [th EXCEPT ![k].pc = "lock",
                        ![k].chunks = splitChunks(buildChunks(th[k].rows, 1, -1, <<>>, t.rowCount),
                                                  t.rowByteCount)]
    /\ UNCHANGED <<disk, t, last, log, mrw>>

\* t.mrw.Lock(): waits while any goroutine holds the lock
Lock(k) ==
    /\ UNCHANGED <<openTables, fpos, child, handles>>
    /\ th[k].pc = "lock"
    /\ mrw.w = 0
    /\ mrw.r = {}
    /\ mrw' = [mrw EXCEPT !.w = k]
    /\ th' = [th EXCEPT ![k].pc = "write"]
    /\ UNCHANGED <<disk, t, last, log>>

\* what a call does between Lock and the deferred Unlock
locked(tb, f, h) ==
    IF h.op = "InsertRow" THEN InsertRow(tb, f, h.values)
    ELSE IF h.op = "DeleteRows" /\ Len(h.filters) = 0 THEN DeleteRows(tb, f, <<>>)
    ELSE IF h.op = "DeleteRows" THEN shiftAndTruncate(tb, f, h.rows, h.chunks)
    ELSE [err |-> writeRows(tb, f, h.values, h.rows).err,
          n |-> IF writeRows(tb, f, h.values, h.rows).err = "" THEN Len(h.rows) ELSE 0,
          f |-> writeRows(tb, f, h.values, h.rows).f,
          tb |-> tb]

Written(k, r) ==
    /\ disk' = r.f
    /\ t' = r.tb
    /\ th' = [th EXCEPT ![k].pc = "done", ![k].err = r.err, ![k].n = r.n]

\* the writes, the truncate and the counter updates of a call, then Unlock
Write(k) ==
    /\ UNCHANGED <<openTables, fpos, child, handles>>
    /\ th[k].pc = "write"
    /\ Written(k, locked(t, disk, th[k]))
    /\ mrw' = [mrw EXCEPT !.w = 0]
    /\ UNCHANGED <<last, log>>

ConcNext ==
    \/ Return
    \/ \E fields \in Schemas : th[1].pc = "idle" /\ CreateTable(fields)
    \/ Ready /\ th[1].pc = "idle" /\ \E values \in FullRows(t.Fields) : InsertRowStep(values)
    \/ Ready /\ \E filters \in FewFilterLists(t.Fields), row \in FullRows(t.Fields) :
                   Start("DeleteRows", <<>>, filters, "InsertRow", row)
    \/ Ready /\ \E values \in UpdateInputs(t.Fields), filters \in FewFilterLists(t.Fields),
                      row \in FullRows(t.Fields) :
                   Start("UpdateRows", values, filters, "InsertRow", row)
    \/ Ready /\ \E values \in UpdateInputs(t.Fields), filters \in FewFilterLists(t.Fields) :
                   Start("UpdateRows", values, filters, "DeleteRows", <<>>)
    \/ Ready /\ \E values \in FullRows(t.Fields), row \in FullRows(t.Fields) :
                   Start("InsertRow", values, <<>>, "InsertRow", row)
    \/ \E k \in 1..2 : RLock(k)
    \/ \E k \in 1..2 : Scan(k)
    \/ \E k \in 1..2 : Chunks(k)
    \/ \E k \in 1..2 : Lock(k)
    \/ \E k \in 1..2 : Write(k)

ConcSpec == Init /\ [][ConcNext]_vars

(***************************************************************************)
(* The coordinator's map of open tables and SQLEngine.Cleanup.  The handle *)
(* of table t is the variable t; openTables tells of every other table     *)
(* whether the map has a handle for it ("none" when not) and whether that  *)
(* handle's file is open or closed.                                        *)
(***************************************************************************)
\* e.openTables by file state, the handle of t included
tableFiles == [n \in OtherTables \cup {"t"} |-> IF n = "t" THEN t.st ELSE openTables[n]]

\* the orders in which a range over the map can visit its entries
Orders(st) ==
    {o \in UNION {[1..k -> DOMAIN st] : k \in 0..Cardinality(DOMAIN st)} :
        /\ \A i, j \in 1..Len(o) : o[i] = o[j] => i = j
        /\ \A n \in DOMAIN st : st[n] # "none" <=> \E i \in 1..Len(o) : o[i] = n}

\* SQLEngine.Cleanup, the loop over the map in the order given: Close on a
\* closed file fails, Close on the file of table fail releases the
\* descriptor and reports an I/O error, and the first error ends the loop
RECURSIVE cleanupTables(_, _, _)
cleanupTables(order, st, fail) ==
    IF Len(order) = 0 THEN [err |-> "", st |-> st]
    ELSE IF st[order[1]] = "closed" THEN [err |-> "file already closed", st |-> st]
    ELSE IF order[1] = fail
    THEN [err |-> "input/output error", st |-> [st EXCEPT ![order[1]] = "closed"]]
    ELSE cleanupTables(Tail(order), [st EXCEPT ![order[1]] = "closed"], fail)

\* getTable or createTable for a table other than t puts its handle in the map
OpenOther(n) ==
    /\ last.op = ""
    /\ openTables[n] = "none"
    /\ openTables' = [openTables EXCEPT ![n] = "open"]
    /\ UNCHANGED <<disk, t, last, log, mrw, th, fpos, child, handles>>

\* table.Cleanup on the handle that a CREATE TABLE statement returned
CloseOther(n) ==
    /\ last.op = ""
    /\ openTables[n] = "open"
    /\ openTables' = [openTables EXCEPT ![n] = "closed"]
    /\ UNCHANGED <<disk, t, last, log, mrw, th, fpos, child, handles>>

CleanedUp(r) ==
    /\ t' = [t EXCEPT !.st = r.st["t"]]
    /\ openTables' = [n \in OtherTables |-> r.st[n]]
    /\ last' = Call("SQLEngine.Cleanup", r.err, 0, <<>>, <<>>, <<>>, <<>>)

\* SQLEngine.Cleanup
EngineCleanup(order, fail) ==
    /\ last.op = ""
    /\ CleanedUp(cleanupTables(order, tableFiles, fail))
    /\ UNCHANGED <<disk, log, mrw, th, fpos, child, handles>>

CleanNext ==
    \/ Return
    \/ \E fields \in Schemas : CreateTable(fields)
    \/ Cleanup
    \/ \E n \in OtherTables : OpenOther(n)
    \/ \E n \in OtherTables : CloseOther(n)
    \/ \E order \in Orders(tableFiles), fail \in OtherTables \cup {"t", ""} :
          EngineCleanup(order, fail)

CleanSpec == Init /\ [][CleanNext]_vars

(***************************************************************************)
(* The storage comparison applied to pairs of encoded cells.               *)
(***************************************************************************)
\* the integers whose encodings are compared: they differ in the first,
\* the second and the third byte
CmpInts == {0, 1, 2, 3, 255, 256, 257, 258, 512, 513, 65536}

\* the six operators, in the order of the switch of compareValues
Operators == <<"=", "!=", "<", "<=", ">", ">=">>

\* compareValues(v1, operator, v2) for each operator
Compare(v1, v2) ==
    /\ last.op = ""
    /\ last' = [Call("compareValues", "", 0,
                     Tuple([k \in 1..Len(Operators) |-> compareValues(v1, Operators[k], v2)]),
                     <<>>, <<>>, <<>>)
                  EXCEPT !.args = <<v1, v2>>]
    /\ UNCHANGED <<disk, t, log, mrw, th, openTables, fpos, child, handles>>

CmpNext ==
    \/ Return
    \/ \E a \in CmpInts, b \in CmpInts : Compare(i64ToB(a), i64ToB(b))

CmpSpec == Init /\ [][CmpNext]_vars

(***************************************************************************)
(* DeleteRows with an I/O call that fails while it holds the lock.         *)
(***************************************************************************)
\* the shift loop of DeleteRows in which the I/O call number fail fails:
\* call 2i-1 is the ReadAt of chunk i, call 2i its WriteAt; a failing WriteAt
\* has written nothing or the first half of the chunk
RECURSIVE shiftChunksFailing(_, _, _, _, _)
shiftChunksFailing(tb, f, chunks, fail, half) ==
    IF Len(chunks) = 0 THEN [err |-> "", f |-> f]
    ELSE LET chunk == chunks[1]
             chunkSize == (chunk.end - chunk.start + 1) * tb.rowByteCount
             offset == chunk.start * tb.rowByteCount + tb.headerByteCount
             r == ReadAt(f, offset, chunkSize)
             w == WriteAt(f, offset - chunk.shift * tb.rowByteCount, r.b)
             part == WriteAt(f, offset - chunk.shift * tb.rowByteCount,
                             SubSeq(r.b, 1, IF half THEN Len(r.b) \div 2 ELSE 0))
         IN IF fail = 1 \/ r.err # ""
            THEN [err |-> IF fail = 1 THEN "input/output error" ELSE r.err, f |-> f]
            ELSE IF fail = 2 \/ w.err # ""
            THEN [err |-> IF w.err # "" THEN w.err ELSE "input/output error",
                  f |-> IF w.err # "" THEN f ELSE part.f]
            ELSE shiftChunksFailing(tb, w.f, Tail(chunks), fail - 2, half)

\* the part of DeleteRows under the exclusive lock when call number fail
\* fails; the call after the last chunk is the Truncate
lockedFailing(tb, f, h, fail, half) ==
    LET sh == shiftChunksFailing(tb, f, h.chunks, fail, half)
    IN IF sh.err # "" THEN [err |-> sh.err, n |-> 0, f |-> sh.f, tb |-> tb]
       ELSE [err |-> "could not truncate", n |-> 0, f |-> sh.f, tb |-> tb]

\* the locked part of a DeleteRows in which an I/O call fails, then the
\* deferred Unlock
WriteFailing(k, fail, half) ==
    /\ th[k].pc = "write"
    /\ th[k].op = "DeleteRows"
    /\ fail \in 1..(2 * Len(th[k].chunks) + 1)
    /\ Written(k, lockedFailing(t, disk, th[k], fail, half))
    /\ mrw' = [mrw EXCEPT !.w = 0]
    /\ UNCHANGED <<last, log, openTables, fpos, child, handles>>

FailNext ==
    \/ Return
    \/ \E fields \in Schemas : th[1].pc = "idle" /\ CreateTable(fields)
    \/ Ready /\ th[1].pc = "idle" /\ \E values \in FullRows(t.Fields) : InsertRowStep(values)
    \/ Ready /\ th[1].pc = "idle" /\ \E filters \in FewFilterLists(t.Fields) : DeleteRowsStep(filters)
    \/ Ready /\ \E filters \in FewFilterLists(t.Fields), row \in FullRows(t.Fields) :
                   Start("DeleteRows", <<>>, filters, "InsertRow", row)
    \/ \E k \in 1..2 : RLock(k)
    \/ \E k \in 1..2 : Scan(k)
    \/ \E k \in 1..2 : Chunks(k)
    \/ \E k \in 1..2 : Lock(k)
    \/ \E k \in 1..2 : Write(k)
    \/ \E k \in 1..2, fail \in 1..(2 * MaxRows + 1), half \in BOOLEAN : WriteFailing(k, fail, half)

FailSpec == Init /\ [][FailNext]_vars

(***************************************************************************)
(* Two goroutines that call any two of InsertRow, GetRows, DeleteRows and  *)
(* UpdateRows on one handle, so that both may scan at once; the I/O calls  *)
(* of a DeleteRows may fail.  The Go scheduler runs every goroutine that   *)
(* can run, and a goroutine blocked in RLock or Lock is woken when the     *)
(* lock is released: each step of each goroutine is weakly fair.           *)
(***************************************************************************)
\* the calls a goroutine makes, with their values and filters, on a table of
\* one int field: the filters are none or a = 1, the overrides a = 0
LiveSchema == <<Field("a", "int")>>

LiveFilters == {<<>>, <<Filter("a", "=", "int", IntV(1))>>}

LiveCalls ==
    {[op |-> "InsertRow", values |-> <<Value("int", IntV(1), "a")>>, filters |-> <<>>]}
    \cup {[op |-> op, values |-> <<>>, filters |-> fl] :
             op \in {"GetRows", "DeleteRows"}, fl \in LiveFilters}
    \cup {[op |-> "UpdateRows", values |-> <<Value("int", IntV(0), "a")>>, filters |-> fl] :
             fl \in LiveFilters}

\* the two calls are made at once on an open handle
StartBoth(c1, c2) ==
    /\ t.rowCount + Cardinality({k \in 1..2 : <<c1, c2>>[k].op = "InsertRow"}) <= MaxRows
    /\ th[1].pc = "idle"
    /\ th' = <<Go(c1.op, c1.values, c1.filters), Go(c2.op, c2.values, c2.filters)>>
    /\ log' = NoLog
    /\ UNCHANGED <<disk, t, last, mrw, openTables, fpos, child, handles>>

LiveNext ==
    \/ Return
    \/ th[1].pc = "idle" /\ CreateTable(LiveSchema)
    \/ Ready /\ th[1].pc = "idle" /\ \E values \in FullRows(t.Fields) : InsertRowStep(values)
    \/ Ready /\ \E c1 \in LiveCalls, c2 \in LiveCalls : StartBoth(c1, c2)
    \/ \E k \in 1..2 : RLock(k)
    \/ \E k \in 1..2 : Scan(k)
    \/ \E k \in 1..2 : Chunks(k)
    \/ \E k \in 1..2 : Lock(k)
    \/ \E k \in 1..2 : Write(k)
    \/ \E k \in 1..2, fail \in 1..(2 * MaxRows + 1), half \in BOOLEAN : WriteFailing(k, fail, half)

\* Weak fairness of the steps of goroutine k.  Scan(k) and Write(k) always
\* leave their program point, so ENABLED <<Scan(k)>>_vars is th[k].pc = "scan"
\* and ENABLED <<Write(k)>>_vars is th[k].pc = "write"; their weak fairness is
\* written out with these state predicates in place of ENABLED.
Fair(k) ==
    /\ WF_vars(RLock(k))
    /\ WF_vars(Chunks(k))
    /\ WF_vars(Lock(k))
    /\ ([]<>(th[k].pc # "scan") \/ []<><<Scan(k)>>_vars)
    /\ ([]<>(th[k].pc # "write") \/ []<><<Write(k)>>_vars)

LiveSpec == Init /\ [][LiveNext]_vars /\ Fair(1) /\ Fair(2)

(***************************************************************************)
(* Two goroutines that scan one handle at once.  Both read through the one *)
(* *os.File of the handle, whose offset the variable fpos holds: Seek sets *)
(* it and every Read of a bufio.Reader reads at it and moves it.  Seek and *)
(* Read of an os.File are atomic each; a goroutine takes one step for each.*)
(***************************************************************************)
\* the size of the buffer of bufio.NewReader
defaultBufSize == 4096

\* the file as a scan sees it whose reader has delivered the bytes buf
bufFile(tb, f, buf) ==
    [exists |-> TRUE,
     bytes |-> Tuple([i \in 1..tb.headerByteCount |-> ByteAt(f, i)]) \o buf,
     size |-> tb.headerByteCount + Len(buf)]

\* the row loop of rowsThatMatch over the bytes its reader has delivered,
\* then the deferred RUnlock
ScanEnds(k, buf) ==
    /\ LET m == rowsThatMatch(t, bufFile(t, disk, buf), th[k].filters)
       IN th' = [th EXCEPT ![k].pc = afterScan(th[k], m),
                           ![k].err = m.err,
                           ![k].rows = scanned(th[k], m),
                           ![k].buf = buf]
    /\ mrw' = [mrw EXCEPT !.r = @ \ {k}]

\* t.file.Seek(t.headerByteCount, 0) and bufio.NewReader; a table without
\* rows is scanned without a read
Seek(k) ==
    /\ th[k].pc = "scan"
    /\ fpos' = t.headerByteCount
    /\ IF t.rowCount = 0
       THEN ScanEnds(k, <<>>)
       ELSE th' = [th EXCEPT ![k].pc = "fill"] /\ UNCHANGED mrw
    /\ UNCHANGED <<disk, t, last, log, openTables, child, handles>>

\* the number of bytes a Read at the file's offset delivers
readLen(f, off) == IF off >= f.size THEN 0 ELSE Min(defaultBufSize, f.size - off)

\* io.ReadFull on the empty buffer: the reader reads up to defaultBufSize
\* bytes at the file's offset; the row loop uses the first bytes it needs
Fill(k) ==
    /\ th[k].pc = "fill"
    /\ fpos' = fpos + readLen(disk, fpos)
    /\ LET need == t.rowCount * t.rowByteCount - Len(th[k].buf)
           got == Tuple([i \in 1..Min(readLen(disk, fpos), need) |-> ByteAt(disk, fpos + i)])
       IN IF readLen(disk, fpos) = 0
          THEN /\ th' = [th EXCEPT ![k].pc = "done", ![k].err = "could not read row"]
               /\ mrw' = [mrw EXCEPT !.r = @ \ {k}]
          ELSE IF Len(got) = need
          THEN ScanEnds(k, th[k].buf \o got)
          ELSE th' = [th EXCEPT ![k].buf = @ \o got] /\ UNCHANGED mrw
    /\ UNCHANGED <<disk, t, last, log, openTables, child, handles>>

\* the scans the two goroutines run
ScanCalls(fields) ==
    {[op |-> "GetRows", values |-> <<>>, filters |-> fl] : fl \in FewFilterLists(fields)}

ScanNext ==
    \/ Return
    \/ \E fields \in Schemas : th[1].pc = "idle" /\ CreateTable(fields)
    \/ Ready /\ th[1].pc = "idle" /\ \E values \in FullRows(t.Fields) : InsertRowStep(values)
    \/ Ready /\ th[1].pc = "idle" /\ DeleteRowsStep(<<>>)
    \/ Ready /\ \E c1 \in ScanCalls(t.Fields), c2 \in ScanCalls(t.Fields) : StartBoth(c1, c2)
    \/ \E k \in 1..2 : RLock(k)
    \/ \E k \in 1..2 : Seek(k)
    \/ \E k \in 1..2 : Fill(k)

ScanSpec == Init /\ [][ScanNext]_vars

(***************************************************************************)
(* Two goroutines that call Process with an INSERT on table t in a         *)
(* coordinator that New has made over an existing table file: its map has  *)
(* no entry for t.  SQLEngine takes no lock; a goroutine takes one step    *)
(* for the map lookup of getTable, one for OpenTable, one for the map      *)
(* store and one for InsertRow on the handle it got.  Every handle has its *)
(* own counters and its own lock.  A map access during a map write of the  *)
(* other goroutine is a data race: the runtime may end the process.        *)
(***************************************************************************)
\* the two statements arrive at a new coordinator
StartGet(v1, v2) ==
    /\ last.op = ""
    /\ disk.exists
    /\ th[1].pc = "idle"
    /\ t.rowCount + 2 <= MaxRows
    /\ th' = <<[NoCall EXCEPT !.op = "insertRow", !.values = v1, !.pc = "lookup",
                              !.pre = [disk |-> disk, t |-> t]],
               [NoCall EXCEPT !.op = "insertRow", !.values = v2, !.pc = "lookup",
                              !.pre = [disk |-> disk, t |-> t]]>>
    /\ handles' = NoHandles
    /\ log' = NoLog
    /\ UNCHANGED <<disk, t, last, mrw, openTables, fpos, child>>

\* getTable: table, open := e.openTables[name]
Lookup(k) ==
    /\ th[k].pc = "lookup"
    /\ th' = [th EXCEPT ![k].pc = IF handles.entry # 0 THEN "run" ELSE "open",
                        ![k].n = handles.entry]
    /\ UNCHANGED <<disk, t, last, log, mrw, openTables, fpos, child, handles>>

\* getTable: backend.OpenTable makes a handle from the file
Open(k) ==
    /\ th[k].pc = "open"
    /\ LET r == OpenTableOp(disk)
       IN IF r.err # ""
          THEN th' = [th EXCEPT ![k].pc = "done", ![k].err = r.err] /\ UNCHANGED handles
          ELSE /\ handles' = [handles EXCEPT !.tabs = Append(@, r.tb)]
               /\ th' = [th EXCEPT ![k].pc = "store", ![k].n = Len(handles.tabs) + 1]
    /\ UNCHANGED <<disk, t, last, log, mrw, openTables, fpos, child>>

\* getTable: e.openTables[name] = table
Store(k) ==
    /\ th[k].pc = "store"
    /\ handles' = [handles EXCEPT !.entry = th[k].n]
    /\ th' = [th EXCEPT ![k].pc = "run"]
    /\ UNCHANGED <<disk, t, last, log, mrw, openTables, fpos, child>>

\* the runtime finds a map access during a map write and ends the process
MapFault ==
    /\ \E k \in 1..2 : th[k].pc = "store" /\ th[3 - k].pc \in {"lookup", "store"}
    /\ th' = [k \in 1..2 |-> [th[k] EXCEPT !.pc = "done",
                                           !.err = "fatal error: concurrent map writes"]]
    /\ UNCHANGED <<disk, t, last, log, mrw, openTables, fpos, child, handles>>

\* insertRow: InsertRow on the handle getTable returned
Run(k) ==
    /\ th[k].pc = "run"
    /\ LET r == InsertRow(handles.tabs[th[k].n], disk, th[k].values)
       IN /\ disk' = r.f
          /\ handles' = [handles EXCEPT !.tabs[th[k].n] = r.tb]
          /\ th' = [th EXCEPT ![k].pc = "done", ![k].err = r.err]
    /\ UNCHANGED <<t, last, log, mrw, openTables, fpos, child>>

GetNext ==
    \/ Return
    \/ \E fields \in Schemas : th[1].pc = "idle" /\ CreateTable(fields)
    \/ Ready /\ th[1].pc = "idle" /\ \E values \in FullRows(t.Fields) : InsertRowStep(values)
    \/ \E v1 \in FullRows(t.Fields), v2 \in FullRows(t.Fields) : StartGet(v1, v2)
    \/ \E k \in 1..2 : Lookup(k)
    \/ \E k \in 1..2 : Open(k)
    \/ \E k \in 1..2 : Store(k)
    \/ \E k \in 1..2 : Run(k)
    \/ MapFault

GetSpec == Init /\ [][GetNext]_vars

(***************************************************************************)
(* SELECT with a JOIN: the coordinator's selectRows on the parent table t  *)
(* and the child table u, whose file and handle the variable child holds.  *)
(* Both handles are in the coordinator's map.                              *)
(***************************************************************************)
MaxJoinRows == 2

\* the JoinClause struct
JoinClause(parentField, childField, tableName, filter) ==
    [ParentField |-> parentField, ChildField |-> childField, TableName |-> tableName,
     Filter |-> filter]

\* the fields of SelectArgs that selectRows reads: TableFields maps a table
\* name to the field names selected from it
JoinArgs(tableFields, joins, allFields, filter) ==
    [TableName |-> "t", TableFields |-> tableFields, Joins |-> joins,
     AllFields |-> allFields, Filter |-> filter]

\* the helper selectRows: the filter of the WHERE clause w is appended to
\* the filters given
selectRowsWith(tb, f, fieldsToSelect, w, filters) ==
    IF w.err # "" THEN [err |-> w.err, rows |-> <<>>]
    ELSE GetRows(tb, f, fieldsToSelect, filters \o w.filters)

\* selectRows, the loop over the values of the rows of the child scan: the
\* payloads of the values that carry the child field's name
RECURSIVE joinVals(_, _)
joinVals(rows, childField) ==
    IF Len(rows) = 0 THEN <<>>
    ELSE LET hit == {j \in 1..Len(rows[1].Values) : rows[1].Values[j].FieldName = childField}
             sel == SelectSeq2(rows[1].Values, hit, 1)
         IN Tuple([k \in 1..Len(sel) |-> sel[k].Val]) \o joinVals(Tail(rows), childField)

\* selectRows, the body of the loop over args.Joins: the child scan and the
\* range filter made of its values
joinFilter(tbC, fC, args, join) ==
    LET j == FieldWithName(tbC, join.ChildField)
        selected == args.TableFields[join.TableName]
        fieldsToSelect == IF contains(selected, join.ChildField) THEN selected
                          ELSE Append(selected, join.ChildField)
        r == selectRowsWith(tbC, fC, fieldsToSelect, filterFromWhereClause(join.Filter, tbC), <<>>)
    IN IF j = 0 THEN [err |-> "does not exist", filters |-> <<>>]
       ELSE IF r.err # "" THEN [err |-> r.err, filters |-> <<>>]
       ELSE [err |-> "",
             filters |-> <<[FieldName |-> join.ParentField, Operator |-> "=",
                            Type |-> tbC.Fields[j].Type, Val |-> Nil,
                            Vals |-> joinVals(r.rows, join.ChildField),
                            RangeComparison |-> TRUE]>>]

\* selectRows, the scan of the parent table with the join filter jf
selectRowsParent(tb, f, args, jf) ==
    IF jf.err # "" THEN [err |-> jf.err, rows |-> <<>>]
    ELSE selectRowsWith(tb, f, IF args.AllFields THEN <<>> ELSE args.TableFields[args.TableName],
                        filterFromWhereClause(args.Filter, tb), jf.filters)

\* SQLEngine.selectRows with one join
selectRowsJoin(tb, f, tbC, fC, args) ==
    selectRowsResult(tb, f, selectRowsParent(tb, f, args, joinFilter(tbC, fC, args, args.Joins[1])))

\* CREATE TABLE u
CreateChild(fields) ==
    /\ last.op = ""
    /\ LET r == CreateTableOp(child.disk, "u", fields)
       IN /\ child' = IF r.err = "" THEN [disk |-> r.f, t |-> r.tb] ELSE child
          /\ last' = Call("CreateTable u", r.err, 0, <<>>, <<>>, <<>>, fields)
    /\ UNCHANGED <<disk, t, log, mrw, th, openTables, fpos, handles>>

\* InsertRow on the handle of u
InsertChild(values) ==
    /\ last.op = ""
    /\ child.t.st = "open"
    /\ child.t.rowCount < MaxJoinRows
    /\ LET r == InsertRow(child.t, child.disk, values)
       IN /\ child' = [disk |-> r.f, t |-> r.tb]
          /\ last' = Call("InsertRow u", r.err, r.n, <<>>, values, <<>>, <<>>)
    /\ UNCHANGED <<disk, t, log, mrw, th, openTables, fpos, handles>>

\* a SELECT on t with a JOIN on u through selectRows
JoinSelect(args) ==
    /\ last.op = ""
    /\ t.st = "open"
    /\ child.t.st = "open"
    /\ LET r == selectRowsJoin(t, disk, child.t, child.disk, args)
       IN last' = [Call("selectRows", r.err, r.n, r.rows, <<>>, <<>>, <<>>)
                     EXCEPT !.args = args]
    /\ UNCHANGED <<disk, t, log, mrw, th, openTables, fpos, child, handles>>

\* the schemas of the joined tables
ParentSchemas ==
    {<<Field("a", "int")>>, <<Field("a", "int"), Field("b", "bool")>>, <<Field("b", "string")>>}

ChildSchemas == {<<Field("a", "int")>>, <<Field("b", "string")>>}

\* the rows inserted into the joined tables: into a table of one string
\* field also a string with a zero byte inside
JoinRows(fields) ==
    FullRows(fields)
    \cup {<<Value("string", StrV(<<120, 0, 121>>), fields[j].Name)>> :
             j \in {i \in 1..Len(fields) : Len(fields) = 1 /\ fields[i].Type = "string"}}

\* the WHERE clauses of a statement on a table: none, or its first field
\* against the literal 1 or x
Wheres(fields) ==
    {NoWhere} \cup {WhereClause(fields[1].Name, "=", v) : v \in {<<49>>, <<120>>}}

\* the statements SELECT * FROM t JOIN u ON t.p = u.c, with a WHERE on
\* either side or none
JoinStatements(fields, childFields) ==
    {JoinArgs([n \in {"t", "u"} |-> <<>>],
              <<JoinClause(fields[p].Name, childFields[c].Name, "u", cw)>>, TRUE, w) :
        p \in 1..Len(fields), c \in 1..Len(childFields),
        w \in Wheres(fields), cw \in Wheres(childFields)}

JoinNext ==
    \/ Return
    \/ \E fields \in ParentSchemas : CreateTable(fields)
    \/ \E fields \in ChildSchemas : CreateChild(fields)
    \/ Ready /\ t.rowCount < MaxJoinRows /\ \E values \in JoinRows(t.Fields) : InsertRowStep(values)
    \/ \E values \in JoinRows(child.t.Fields) : InsertChild(values)
    \/ /\ t.st = "open" /\ child.t.st = "open"
       /\ \E args \in JoinStatements(t.Fields, child.t.Fields) : JoinSelect(args)

JoinSpec == Init /\ [][JoinNext]_vars

(***************************************************************************)
(* Derived views used by the properties.                                   *)
(***************************************************************************)
\* every row the handle tb sees in file f
AllRows(tb, f) == rowsThatMatch(tb, f, <<>>)

\* the handle before the call saw a readable table
PreScanOk == AllRows(last.pre.t, last.pre.disk).err = ""

\* the bytes of cell j of row i (from 0) as tb sees them in f
cellAt(tb, f, i, j) == cellOf(tb, rowBytesAt(tb, f, i), j)

\* the value a literal denotes for a primitive
literalValue(type, text) ==
    CASE type = "int" -> IntV(Atoi(text).v)
      [] type = "float" -> FloatV(Atoi(text).v)
      [] type = "string" -> StrV(SubSeq(text, 2, Len(text) - 1))
      [] type = "bool" -> BoolV(text = <<116, 114, 117, 101>>)

\* the field names of a value list are fields of tb, each named once
NamesFields(tb, values) ==
    /\ \A i \in 1..Len(values) : FieldWithName(tb, values[i].FieldName) # 0
    /\ \A i, k \in 1..Len(values) : values[i].FieldName = values[k].FieldName => i = k

\* the handle tb sees in f one row more than pre saw in g, the old rows
\* unchanged, and in the new row the bytes want[j] in every cell j
AppendedRow(pre, g, tb, f, want) ==
    /\ tb.rowCount = pre.rowCount + 1
    /\ \A i \in 0..(pre.rowCount - 1) : rowBytesAt(tb, f, i) = rowBytesAt(pre, g, i)
    /\ \A j \in 1..Len(tb.Fields) : cellAt(tb, f, pre.rowCount, j) = want[j]

(***************************************************************************)
(* Properties.                                                             *)
(***************************************************************************)

\* C1: after DeleteRows(filters) on a table of n rows whose matching indices
\* are the set I, a scan returns exactly the rows [0,n) \ I in their original
\* order at indices 0..n-|I|-1, and DeleteRows returns |I|.
C1_DeleteLeavesSurvivors ==
    (last.op = "DeleteRows" /\ PreScanOk
     /\ rowsThatMatch(last.pre.t, last.pre.disk, last.filters).err = "") =>
        LET before == AllRows(last.pre.t, last.pre.disk).rows
            m == rowsThatMatch(last.pre.t, last.pre.disk, last.filters).rows
            I == {m[k].index + 1 : k \in 1..Len(m)}
            kept == SelectSeq2(before, (1..Len(before)) \ I, 1)
            after == AllRows(t, disk)
        IN /\ last.err = ""
           /\ last.n = Cardinality(I)
           /\ after.err = ""
           /\ Len(after.rows) = Len(kept)
           /\ \A k \in 1..Len(kept) :
                 /\ after.rows[k].index = k - 1
                 /\ after.rows[k].Values = kept[k].Values

\* C2: after every completed CreateTable, InsertRow, DeleteRows or UpdateRows
\* the size of the file on disk and the cached fileByteCount both equal
\* headerByteCount + rowCount * rowByteCount.
C2_FileSizeMatchesRowCount ==
    (last.op \in {"CreateTable", "InsertRow", "DeleteRows", "UpdateRows"}
     /\ last.err = "" /\ t.st = "open") =>
        /\ disk.size = t.headerByteCount + t.rowCount * t.rowByteCount
        /\ t.fileByteCount = t.headerByteCount + t.rowCount * t.rowByteCount

\* C3: after n InsertRow calls with full-row values V1..Vn on a freshly
\* created table, a scan without filters returns n rows, row k with index k-1
\* and cells that decode to Vk.
C3_InsertedRowsScanInOrder ==
    (log.fresh /\ t.st = "open") =>
        LET s == AllRows(t, disk)
        IN /\ s.err = ""
           /\ Len(s.rows) = Len(log.rows)
           /\ \A k \in 1..Len(log.rows) :
                 /\ s.rows[k].index = k - 1
                 /\ s.rows[k].Values = log.rows[k]

\* C4: for UpdateRows with one override f = v and one filter g = w the
\* returned count is the number of rows whose g cell equals w and whose f cell
\* differs from v, and afterwards the f cell of each of those rows encodes v;
\* stated for the storage call and for the UPDATE statement.
C4_UpdateSetsCell ==
    /\ (last.op = "UpdateRows" /\ Len(last.values) = 1 /\ Len(last.filters) = 1
        /\ ~last.filters[1].RangeComparison /\ last.filters[1].Operator = "="
        /\ validateFilters(last.pre.t, last.filters) = "" /\ PreScanOk) =>
           LET tb == last.pre.t
               f == FieldWithName(tb, last.values[1].FieldName)
               g == FieldWithName(tb, last.filters[1].FieldName)
               v == anyToB(last.values[1].Val)
               w == anyToB(last.filters[1].Val)
               M == {i \in 0..(tb.rowCount - 1) :
                        /\ cellAt(tb, last.pre.disk, i, g) = w
                        /\ cellAt(tb, last.pre.disk, i, f) # v}
           IN /\ last.err = ""
              /\ last.n = Cardinality(M)
              /\ \A i \in M : cellAt(t, disk, i, f) = v
    /\ (last.op = "updateRows" /\ last.pre.t.st = "open" /\ PreScanOk
        /\ Len(last.args.Values) = 1 /\ last.args.Filter.present
        /\ FieldWithName(last.pre.t, last.args.Values[1].FieldName) # 0) =>
           LET tb == last.pre.t
               f == FieldWithName(tb, last.args.Values[1].FieldName)
               g == FieldWithName(tb, last.args.Filter.FieldName)
               v == anyToB(literalValue(tb.Fields[f].Type, last.args.Values[1].Val))
               w == anyToB(literalValue(tb.Fields[g].Type, last.args.Filter.Val))
               M == {i \in 0..(tb.rowCount - 1) :
                        /\ cellAt(tb, last.pre.disk, i, g) = w
                        /\ cellAt(tb, last.pre.disk, i, f) # v}
           IN /\ last.err = ""
              /\ last.val = "value"
              /\ last.n = Cardinality(M)
              /\ \A i \in M : cellAt(t, disk, i, f) = v

\* C5: opening by name a closed table that held n rows yields a handle with
\* rowCount = n whose scan returns the same rows in the same order.
C5_ReopenKeepsRows ==
    (last.op = "OpenTable" /\ last.pre.t.st = "closed" /\ PreScanOk) =>
        /\ last.err = ""
        /\ t.rowCount = last.pre.t.rowCount
        /\ AllRows(t, disk) = AllRows(last.pre.t, last.pre.disk)

\* C6: CreateTable(name, fields) followed by OpenTable(name) returns a table
\* with the same name and the same (name, primitive) pairs in the same order.
C6_CreateThenOpenSameSchema ==
    (last.op = "OpenTable" /\ last.pre.log.fresh /\ Len(last.pre.log.rows) = 0) =>
        /\ last.err = ""
        /\ t.Name = last.pre.t.Name
        /\ t.Fields = last.pre.log.fields

C6_Witness ==
    /\ last.op = "OpenTable" /\ last.pre.log.fresh /\ Len(last.pre.log.rows) = 0
    /\ last.err = ""
    /\ Len(t.Fields) = 2

\* C7: with a range filter and operator = a row passes iff its cell equals at
\* least one member of the value set; with != iff it equals no member.
C7_RangeFilterMembership ==
    (last.op = "GetRows" /\ Len(last.fields) = 0 /\ Len(last.filters) = 1
     /\ last.filters[1].RangeComparison
     /\ validateFilters(t, last.filters) = "" /\ AllRows(t, disk).err = "") =>
        LET fl == last.filters[1]
            j == FieldWithName(t, fl.FieldName)
            all == AllRows(t, disk).rows
            member(i) == \E k \in 1..Len(fl.Vals) :
                            cellAt(t, disk, i - 1, j) = anyToB(fl.Vals[k])
            pass == {i \in 1..Len(all) :
                       IF fl.Operator = "=" THEN member(i) ELSE ~member(i)}
        IN /\ last.err = ""
           /\ last.rows = SelectSeq2(all, pass, 1)

\* C8: for a non-empty list of requested names GetRows fails with an
\* unknown-field error iff some requested name is not a field; otherwise it
\* succeeds and every row holds the cells of the requested fields in schema
\* order.
C8_GetRowsProjection ==
    (last.op = "GetRows" /\ Len(last.fields) > 0 /\ Len(last.filters) = 0
     /\ AllRows(t, disk).err = "") =>
        LET all == AllRows(t, disk).rows
            keep == {j \in 1..Len(t.Fields) : contains(last.fields, t.Fields[j].Name)}
        IN IF \E i \in 1..Len(last.fields) : FieldWithName(t, last.fields[i]) = 0
           THEN last.err = "does not exist"
           ELSE /\ last.err = ""
                /\ Len(last.rows) = Len(all)
                /\ \A i \in 1..Len(all) :
                      /\ last.rows[i].index = all[i].index
                      /\ last.rows[i].Values = SelectSeq2(all[i].Values, keep, 1)

\* C9: an insert is rejected with an error and appends no row when it is
\* positional with more values than the table has fields, or keyed with a
\* value that names a field absent from the schema; stated for the storage
\* call (whose values all carry a field name) and for the INSERT statement.
C9_InsertRejected ==
    /\ (/\ last.op = "InsertRow"
        /\ \/ Len(last.values) > Len(last.pre.t.Fields)
           \/ \E i \in 1..Len(last.values) :
                 FieldWithName(last.pre.t, last.values[i].FieldName) = 0) =>
           /\ last.err # ""
           /\ disk = last.pre.disk
           /\ t = last.pre.t
    /\ (/\ last.op = "insertRow" /\ last.pre.t.st = "open"
        /\ IF last.args.HasFieldNames
           THEN \E i \in 1..Len(last.args.Values) :
                   FieldWithName(last.pre.t, last.args.Values[i].FieldName) = 0
           ELSE Len(last.args.Values) > Len(last.pre.t.Fields)) =>
           /\ last.err # ""
           /\ disk = last.pre.disk
           /\ t = last.pre.t

\* C10: a keyed insert that names only a subset of the fields appends exactly
\* one full-width row in which the cell of every omitted field is all zero
\* bytes and the cell of every named field encodes the given value, and it
\* returns 1; stated for the storage call and for the INSERT statement.
C10_KeyedSubsetInsert ==
    /\ (/\ last.op = "InsertRow"
        /\ Len(last.values) < Len(last.pre.t.Fields)
        /\ NamesFields(last.pre.t, last.values)) =>
           LET tb == last.pre.t
               want == [j \in 1..Len(tb.Fields) |->
                          IF valsMap(last.values, tb.Fields[j].Name) # 0
                          THEN anyToB(last.values[valsMap(last.values, tb.Fields[j].Name)].Val)
                          ELSE Zeros(Size(tb.Fields[j].Type))]
           IN /\ last.err = ""
              /\ last.n = 1
              /\ AppendedRow(tb, last.pre.disk, t, disk, want)
    /\ (/\ last.op = "insertRow" /\ last.pre.t.st = "open"
        /\ last.args.HasFieldNames
        /\ Len(last.args.Values) < Len(last.pre.t.Fields)
        /\ NamesFields(last.pre.t, last.args.Values)) =>
           LET tb == last.pre.t
               want == [j \in 1..Len(tb.Fields) |->
                          IF valsMap(last.args.Values, tb.Fields[j].Name) # 0
                          THEN anyToB(literalValue(tb.Fields[j].Type,
                                  last.args.Values[valsMap(last.args.Values,
                                                           tb.Fields[j].Name)].Val))
                          ELSE Zeros(Size(tb.Fields[j].Type))]
           IN /\ last.err = ""
              /\ last.val = "value"
              /\ last.n = 1
              /\ AppendedRow(tb, last.pre.disk, t, disk, want)

\* C11: DeleteRows with an empty filter list succeeds, cuts the file down to
\* the header (whose bytes it leaves as they were), sets rowCount to 0 and
\* fileByteCount to headerByteCount, and returns the row count the handle
\* had before; stated for the storage call and for a DELETE statement
\* without WHERE on the handle the coordinator uses.
C11_DeleteAllTruncates ==
    /\ (last.op = "DeleteRows" /\ Len(last.filters) = 0) =>
          /\ last.err = ""
          /\ last.n = last.pre.t.rowCount
          /\ t.rowCount = 0
          /\ t.fileByteCount = t.headerByteCount
          /\ t.headerByteCount = last.pre.t.headerByteCount
          /\ disk.size = t.headerByteCount
          /\ \A i \in 1..t.headerByteCount : ByteAt(disk, i) = ByteAt(last.pre.disk, i)
    /\ (/\ last.op = "deleteRows"
        /\ ~last.args.Filter.present
        /\ getTable(last.pre.t, last.pre.disk).err = "") =>
          /\ last.err = "" /\ last.val = "value"
          /\ last.n = getTable(last.pre.t, last.pre.disk).tb.rowCount
          /\ t.rowCount = 0
          /\ t.fileByteCount = t.headerByteCount
          /\ disk.size = t.headerByteCount
          /\ \A i \in 1..t.headerByteCount : ByteAt(disk, i) = ByteAt(last.pre.disk, i)

\* an empty-filter delete has removed at least two rows
C11_Witness ==
    /\ last.op = "DeleteRows"
    /\ Len(last.filters) = 0
    /\ last.pre.t.rowCount >= 2
    /\ last.n >= 2
    /\ t.rowCount = 0

\* C12: after an UpdateRows call has succeeded, the same call made again
\* right away returns 0 and leaves the file as it is.
C12_UpdateTwiceIsNoop ==
    (last.op = "UpdateRows" /\ last.err = "") =>
        /\ UpdateRows(t, disk, last.values, last.filters).err = ""
        /\ UpdateRows(t, disk, last.values, last.filters).n = 0
        /\ UpdateRows(t, disk, last.values, last.filters).f = disk

\* C13: CreateTable on a name whose file exists fails with the
\* table-exists error, leaves the file as it was and leaves the cached
\* handle in place.
C13_CreateExistingRejected ==
    (last.op = "CreateTable" /\ last.pre.disk.exists) =>
        /\ last.err = "already exists"
        /\ disk = last.pre.disk
        /\ t = last.pre.t

\* CreateTable with another schema was tried on a table that holds a row
C13_Witness ==
    /\ last.op = "CreateTable"
    /\ last.pre.disk.exists
    /\ last.pre.t.st = "open"
    /\ last.pre.t.rowCount >= 1
    /\ last.fields # last.pre.t.Fields
    /\ last.err = "already exists"

\* C17: a positional INSERT statement that gives every field a literal of
\* its primitive, on a table with a bool field, succeeds, and a SELECT of
\* every field right after it renders the bool cell of the new row as the
\* literal that was written, true or false.
C17_BoolLiteralRoundTrip ==
    (/\ last.op = "insertRow"
     /\ last.pre.t.st = "open"
     /\ ~last.args.HasFieldNames
     /\ Len(last.args.Values) = Len(last.pre.t.Fields)
     /\ \E j \in 1..Len(last.pre.t.Fields) : last.pre.t.Fields[j].Type = "bool"
     /\ \A j \in 1..Len(last.pre.t.Fields) :
           last.args.Values[j].Val \in LitsOf(last.pre.t.Fields[j].Type)) =>
        /\ last.err = "" /\ last.val = "value"
        /\ selectRows(t, disk, SelectArgs(<<>>, TRUE, NoWhere)).err = ""
        /\ Len(selectRows(t, disk, SelectArgs(<<>>, TRUE, NoWhere)).rows) = last.pre.t.rowCount + 1
        /\ \A j \in 1..Len(last.pre.t.Fields) :
              last.pre.t.Fields[j].Type = "bool" =>
                 selectRows(t, disk, SelectArgs(<<>>, TRUE, NoWhere)).rows[last.pre.t.rowCount + 1][j]
                    = last.args.Values[j].Val

\* C14: Process never hands back a nil result together with a nil error,
\* whatever the statement text.
C14_ProcessResultOrError ==
    last.op = "Process" => ~(last.val = "nil" /\ last.err = "")

\* C18: when Parse accepts a statement without a semicolon at its end,
\* Parse of the same text followed by a semicolon succeeds with the same
\* command and the same arguments.
C18_TrailingSemicolon ==
    (/\ last.op = "Process"
     /\ ~last.args.semi
     /\ Parse(Text(last.args)).err = ""
     /\ Parse(Text(last.args)).cmd # "") =>
        Parse(Text([last.args EXCEPT !.semi = TRUE])) = Parse(Text(last.args))

\* C19: when Parse accepts a statement written with one space between its
\* pieces and none inside its parentheses, Parse of the same statement with
\* longer gaps, newlines or a space just inside the parentheses gives the
\* same command and the same arguments.
C19_WhitespaceInsensitive ==
    (/\ last.op = "Process"
     /\ ~last.args.semi
     /\ Parse(Text(Normalised(last.args))).err = ""
     /\ Parse(Text(Normalised(last.args))).cmd # "") =>
        Parse(Text(last.args)) = Parse(Text(Normalised(last.args)))

\* C20: whenever Parse returns no error for a statement that is not empty,
\* the command it returns is not nil.
C20_NoErrorMeansCommand ==
    (/\ last.op = "Process"
     /\ ~isEmptyString(Text(last.args))
     /\ Parse(Text(last.args)).err = "") =>
        Parse(Text(last.args)).cmd # ""

\* the rows, the row count and the file size are those that the result r
\* of a sequence of calls leaves
SameTable(r) ==
    /\ t.rowCount = r.tb.rowCount
    /\ disk.size = r.f.size
    /\ \A i \in 0..(t.rowCount - 1) : rowBytesAt(t, disk, i) = rowBytesAt(r.tb, r.f, i)

\* C15: when DeleteRows(filters) and InsertRow(r) have run concurrently on
\* one table and both have returned, the rows, the row count and the file
\* size are those of DeleteRows then InsertRow, or those of InsertRow then
\* DeleteRows, run one after the other from the same start.
C15_ConcurrentIsSequential ==
    (/\ th[1].op = "DeleteRows"
     /\ th[2].op = "InsertRow"
     /\ th[1].pc = "done"
     /\ th[2].pc = "done") =>
        LET d1 == DeleteRows(th[1].pre.t, th[1].pre.disk, th[1].filters)
            i2 == InsertRow(th[1].pre.t, th[1].pre.disk, th[2].values)
        IN \/ SameTable(InsertRow(d1.tb, d1.f, th[2].values))
           \/ SameTable(DeleteRows(i2.tb, i2.f, th[1].filters))

\* C16: while a goroutine is between Lock and Unlock, where InsertRow,
\* DeleteRows and UpdateRows do their writes and truncates, the other
\* goroutine is neither inside its scan nor between Lock and Unlock.
C16_WritesExclusive ==
    \A a \in 1..2, b \in 1..2 :
        (a # b /\ th[a].pc = "write") => th[b].pc \notin {"scan", "write"}

\* a goroutine is about to write while the other one, its scan behind it,
\* waits for the lock
C16_Witness ==
    /\ th[2].pc = "write"
    /\ th[1].pc = "lock"
    /\ Len(th[1].rows) > 0

\* C21: whenever Parse accepts a statement with a WHERE clause, the
\* clause's field name carries no table qualifier: the statement's own table
\* name has been stripped from it, and a clause qualified by another table
\* is not accepted.
C21_QualifiedWhereField ==
    (/\ last.op = "Process"
     /\ Parse(Text(last.args)).err = ""
     /\ Parse(Text(last.args)).cmd \in {"Select", "Delete", "Update"}
     /\ Parse(Text(last.args)).args.Filter.present) =>
        Len(Split(Parse(Text(last.args)).args.Filter.clause.FieldName, 46, <<>>)) = 1

\* C22: OpenTable does not succeed on a file whose size behind the header
\* is not a whole number of rows.
C22_OpenRejectsPartialRow ==
    (last.op = "OpenTable" /\ last.err = "") =>
        (disk.size - t.headerByteCount) % t.rowByteCount = 0

\* C23: when SQLEngine.Cleanup has returned, with an error or without, no
\* handle in the coordinator's map has its file open.
C23_CleanupClosesAll ==
    last.op = "SQLEngine.Cleanup" => \A n \in DOMAIN tableFiles : tableFiles[n] # "open"

\* C24: in a DeleteRows that found the deleted indices I, no chunk's range
\* holds an index of I, every surviving index above the least index of I
\* lies in exactly one chunk, and a chunk's shift is the number of indices
\* of I below its start.
C24_ChunksCoverSurvivors ==
    (/\ last.op = "DeleteRows"
     /\ Len(last.filters) > 0
     /\ PreScanOk
     /\ rowsThatMatch(last.pre.t, last.pre.disk, last.filters).err = ""
     /\ Len(rowsThatMatch(last.pre.t, last.pre.disk, last.filters).rows) > 0) =>
        LET m == rowsThatMatch(last.pre.t, last.pre.disk, last.filters).rows
            I == {m[k].index : k \in 1..Len(m)}
            chunks == buildChunks(m, 1, -1, <<>>, last.pre.t.rowCount)
        IN /\ \A c \in 1..Len(chunks) :
                 /\ \A i \in chunks[c].start..chunks[c].end : i \notin I
                 /\ chunks[c].shift = Cardinality({d \in I : d < chunks[c].start})
           /\ \A i \in 0..(last.pre.t.rowCount - 1) :
                 (i \notin I /\ \E d \in I : d < i) =>
                    Cardinality({c \in 1..Len(chunks) :
                                   chunks[c].start <= i /\ i <= chunks[c].end}) = 1

\* C25: InsertRow, DeleteRows and UpdateRows leave every byte of the
\* header, the first headerByteCount bytes of the file, as it was.
C25_HeaderUntouched ==
    (last.op \in {"InsertRow", "DeleteRows", "UpdateRows"} /\ t.st = "open") =>
        \A i \in 1..t.headerByteCount : ByteAt(disk, i) = ByteAt(last.pre.disk, i)

\* C26: an UpdateRows that succeeds rewrites every row it changes with
\* exactly rowByteCount bytes, leaves the cells of the fields it does not
\* override in the matched rows as they were, and leaves every byte of the
\* other rows as it was.
C26_UpdateTouchesOverridesOnly ==
    (/\ last.op = "UpdateRows"
     /\ last.err = ""
     /\ PreScanOk) =>
        LET m == rowsThatMatch(last.pre.t, last.pre.disk, last.filters).rows
            I == {m[k].index : k \in 1..Len(m)}
        IN /\ \A k \in 1..Len(m) :
                 requiresUpdate(last.pre.t, last.values, m[k]) =>
                    Len(updatedRowBytes(last.pre.t, last.values, m[k])) = t.rowByteCount
           /\ \A i \in I : \A j \in 1..Len(t.Fields) :
                 valsMap(last.values, t.Fields[j].Name) = 0 =>
                    cellAt(t, disk, i, j) = cellAt(last.pre.t, last.pre.disk, i, j)
           /\ \A i \in (0..(t.rowCount - 1)) \ I :
                 rowBytesAt(t, disk, i) = rowBytesAt(last.pre.t, last.pre.disk, i)

\* C27: when UpdateRows, with DeleteRows running beside it, holds the lock
\* for its writes, every row it is about to write has an index below the
\* row count of that moment.
C27_UpdateWritesInsideTable ==
    \A k \in 1..2 :
        (th[k].op = "UpdateRows" /\ th[3 - k].op = "DeleteRows" /\ th[k].pc = "write") =>
            \A i \in 1..Len(th[k].rows) : th[k].rows[i].index < t.rowCount

\* C30: when two InsertRow calls have run concurrently and both have
\* returned, rowCount has grown by 2 and fileByteCount by 2 * rowByteCount,
\* and a scan returns the rows of before followed by the two inserted rows,
\* one at each of the two new indices.
C30_ConcurrentInsertsAppend ==
    (/\ th[1].op = "InsertRow"
     /\ th[2].op = "InsertRow"
     /\ th[1].pc = "done"
     /\ th[2].pc = "done") =>
        LET p == th[1].pre
            n == th[1].pre.t.rowCount
            s == AllRows(t, disk)
        IN /\ th[1].err = "" /\ th[2].err = ""
           /\ t.rowCount = n + 2
           /\ t.fileByteCount = p.t.fileByteCount + 2 * t.rowByteCount
           /\ s.err = ""
           /\ Len(s.rows) = n + 2
           /\ \A i \in 1..n : s.rows[i] = AllRows(p.t, p.disk).rows[i]
           /\ \E a \in 1..2 :
                 /\ s.rows[n + 1] = [index |-> n, Values |-> th[a].values]
                 /\ s.rows[n + 2] = [index |-> n + 1, Values |-> th[3 - a].values]

\* what a filter asks of a cell: the storage comparison with its value,
\* and for a range filter membership in its value set (= ) or not (!=)
Holds(cellBytes, filter) ==
    IF filter.RangeComparison
    THEN (filter.Operator = "=") <=>
            \E k \in 1..Len(filter.Vals) : cellBytes = anyToB(filter.Vals[k])
    ELSE compareValues(cellBytes, filter.Operator, anyToB(filter.Val))

\* C28: a scan with a non-empty list of valid filters returns exactly the
\* rows in which every filter of the list holds for the cell of its field,
\* in ascending order of their indices, each with its own index.
C28_ScanIsConjunction ==
    (/\ last.op = "GetRows"
     /\ Len(last.fields) = 0
     /\ Len(last.filters) > 0
     /\ validateFilters(t, last.filters) = ""
     /\ AllRows(t, disk).err = "") =>
        LET all == AllRows(t, disk).rows
            pass == {i \in 1..Len(all) :
                       \A k \in 1..Len(last.filters) :
                          Holds(cellAt(t, disk, i - 1,
                                       FieldWithName(t, last.filters[k].FieldName)),
                                last.filters[k])}
        IN /\ last.err = ""
           /\ last.rows = SelectSeq2(all, pass, 1)

\* a filter that the table's schema does not admit: its field is absent,
\* its primitive is not the field's, or it is a range filter with an
\* operator other than = and !=
BadFilter(tb, filter) ==
    \/ \A j \in 1..Len(tb.Fields) : tb.Fields[j].Name # filter.FieldName
    \/ \E j \in 1..Len(tb.Fields) :
          tb.Fields[j].Name = filter.FieldName /\ tb.Fields[j].Type # filter.Type
    \/ filter.RangeComparison /\ filter.Operator \notin {"=", "!="}

\* C29: whenever some filter of the list is bad, GetRows, DeleteRows and
\* UpdateRows return the error of the validation, which precedes the read
\* of the rows, with no rows and a count of 0, and leave the file and the
\* handle as they were.
C29_BadFilterRejected ==
    (/\ last.op \in {"GetRows", "DeleteRows", "UpdateRows"}
     /\ \E k \in 1..Len(last.filters) : BadFilter(last.pre.t, last.filters[k])) =>
        /\ last.err \in {"does not exist", "is of type", "range operator"}
        /\ last.n = 0
        /\ last.rows = <<>>
        /\ disk = last.pre.disk
        /\ t = last.pre.t

\* a DeleteRows with a range filter on < was rejected on a table with rows
C29_Witness ==
    /\ last.op = "DeleteRows"
    /\ last.pre.t.rowCount > 0
    /\ Len(last.filters) = 1
    /\ last.filters[1].RangeComparison
    /\ last.filters[1].Operator = "<"
    /\ last.err = "range operator"

\* C37: for two encoded cells of the same width exactly one of a < b,
\* a = b, a > b holds under the storage comparison, a <= b holds iff a < b
\* or a = b, and a >= b holds iff a < b does not hold.
C37_ComparisonTrichotomy ==
    last.op = "compareValues" =>
        LET eq == last.rows[1]
            lt == last.rows[3]
            le == last.rows[4]
            gt == last.rows[5]
            ge == last.rows[6]
        IN /\ Cardinality({k \in {1, 3, 5} : last.rows[k]}) = 1
           /\ le <=> (lt \/ eq)
           /\ ge <=> ~lt

\* C34: Parse returns an error for a statement whose WHERE keyword is
\* followed by fewer than three tokens.
C34_ShortWhereRejected ==
    (/\ last.op = "Process"
     /\ \E i \in 1..Len(last.args.pieces) :
           /\ last.args.pieces[i].s = Keyword("where")
           /\ Len(last.args.pieces) - i < 3) =>
        Parse(Text(last.args)).err # ""

\* a text that starts and ends with a double quote, and the text between
IsQuoted(s) == Len(s) >= 2 /\ s[1] = 34 /\ s[Len(s)] = 34

Unquoted(s) == IF IsQuoted(s) THEN SubSeq(s, 2, Len(s) - 1) ELSE s

\* C38: a statement that ends with a string literal, as the one value of an
\* INSERT or as the value of a WHERE clause (no space inside the
\* parentheses, no semicolon), is parsed into one value whose characters are
\* those written between the quotes.
C38_QuotedStringKept ==
    (/\ last.op = "Process"
     /\ last.args.pad = <<>>
     /\ ~last.args.semi
     /\ Len(last.args.pieces) > 0
     /\ IsQuoted(last.args.pieces[Len(last.args.pieces)].s)) =>
        LET p == Parse(Text(last.args))
            written == Unquoted(last.args.pieces[Len(last.args.pieces)].s)
        IN /\ p.err = ""
           /\ p.cmd = "Insert" =>
                 /\ Len(p.args.Values) = 1
                 /\ Unquoted(p.args.Values[1].Val) = written
           /\ p.cmd = "Delete" =>
                 /\ p.args.Filter.present
                 /\ Unquoted(p.args.Filter.clause.Val) = written

\* the errors of a statement on an unknown table, on an unknown field, with
\* a filter whose type is not the field's, with a literal that does not parse
RejectErrors ==
    {"could not open table file", "does not exist", "is of type",
     "could not parse int", "could not parse float"}

\* C35: a statement rejected because of an unknown table, an unknown field,
\* a filter type mismatch or a literal that cannot be coerced leaves the
\* file as it was, and the handle's row count and file size as they were.
C35_RejectedLeavesTables ==
    (/\ last.op \in {"insertRow", "updateRows", "deleteRows", "selectRows"}
     /\ last.err \in RejectErrors) =>
        /\ disk = last.pre.disk
        /\ t.rowCount = last.pre.t.rowCount
        /\ t.fileByteCount = last.pre.t.fileByteCount

\* a DELETE with a WHERE clause on a bool field was rejected on a table
\* with rows
C35_Witness ==
    /\ last.op = "deleteRows"
    /\ last.err = "is of type"
    /\ last.pre.t.st = "open"
    /\ last.pre.t.rowCount > 0

\* the errors with which DeleteRows returns from under the exclusive lock
LockedErrors ==
    {"input/output error", "could not truncate", "EOF", "negative offset", "invalid argument"}

\* C36: when a chunk read, a chunk write or the truncate of DeleteRows has
\* failed, DeleteRows has returned an error and released the lock, and the
\* handle's file size is the header plus its row count times the row width
\* and is the size of the file.
C36_FailedDeleteKeepsCounts ==
    \A k \in 1..2 :
        (th[k].op = "DeleteRows" /\ th[k].pc = "done" /\ th[k].err \in LockedErrors) =>
            /\ mrw.w # k
            /\ k \notin mrw.r
            /\ t.fileByteCount = t.headerByteCount + t.rowCount * t.rowByteCount
            /\ disk.size = t.fileByteCount

\* C39: no call asks for the exclusive lock while it holds the shared lock,
\* a call that has returned, with or without an error, holds no lock, and
\* under fair scheduling two concurrent calls among InsertRow, GetRows,
\* DeleteRows and UpdateRows both return.
C39_LocksReleasedAndCallsReturn ==
    /\ [](\A k \in 1..2 : th[k].pc \in {"lock", "write"} => k \notin mrw.r)
    /\ [](\A k \in 1..2 : th[k].pc = "done" => mrw.w # k /\ k \notin mrw.r)
    /\ (th[1].pc # "idle") ~> (\A k \in 1..2 : th[k].pc = "done")

\* an UpdateRows that scanned and wrote and a DeleteRows that scanned and
\* failed under the exclusive lock have both returned
C39_Witness ==
    /\ th[1].op = "UpdateRows" /\ th[1].pc = "done" /\ th[1].err = "" /\ th[1].n > 0
    /\ th[2].op = "DeleteRows" /\ th[2].pc = "done" /\ Len(th[2].filters) > 0
    /\ th[2].err \in LockedErrors
    /\ mrw = [w |-> 0, r |-> {}]

\* C31: a scan that ran while another goroutine scanned the same handle,
\* both under the shared lock and with no writer, has returned the rows and
\* the error that the scan returns when it runs alone.
C31_ConcurrentScansAgree ==
    \A k \in 1..2 :
        (th[k].op = "GetRows" /\ th[k].pc = "done" /\ th[3 - k].op = "GetRows") =>
            /\ th[k].err = rowsThatMatch(t, disk, th[k].filters).err
            /\ th[k].rows = rowsThatMatch(t, disk, th[k].filters).rows

\* C33: whatever the interleaving of two Process calls on table t in one
\* coordinator, OpenTable has made at most one handle for t and both
\* statements use the same handle.
C33_OneHandlePerTable ==
    /\ Len(handles.tabs) <= 1
    /\ \A j \in 1..2, k \in 1..2 :
          (th[j].op = "insertRow" /\ th[k].op = "insertRow" /\ th[j].n # 0 /\ th[k].n # 0) =>
              th[j].n = th[k].n

\* the rows (from 0) of table tb in f that pass the WHERE clause w
wherePass(tb, f, w) ==
    {i \in 0..(tb.rowCount - 1) :
        shouldAddRow(tb, rowBytesAt(tb, f, i), filterFromWhereClause(w, tb).filters)}

\* the rows (from 0) of the parent table that a SELECT with the join asks
\* for: they pass the statement's WHERE, and their parent-field cell is the
\* child-field cell of a child row that passes the join's WHERE
joinPass(args, join) ==
    {i \in wherePass(t, disk, args.Filter) :
        \E c \in wherePass(child.t, child.disk, join.Filter) :
            cellAt(t, disk, i, FieldWithName(t, join.ParentField))
                = cellAt(child.t, child.disk, c, FieldWithName(child.t, join.ChildField))}

\* C32: a SELECT with a JOIN that returns a result returns exactly the
\* parent rows that pass the statement's WHERE and whose parent-field cell
\* equals the child-field cell of a child row passing the join's WHERE, in
\* the table's order; the result is empty when no child row passes.
C32_JoinIsSemiJoin ==
    (last.op = "selectRows" /\ last.err = "") =>
        /\ last.rows = formatRows(SelectSeq2(AllRows(t, disk).rows,
                                             {i + 1 : i \in joinPass(last.args, last.args.Joins[1])}, 1))
        /\ wherePass(child.t, child.disk, last.args.Joins[1].Filter) = {} => last.rows = <<>>

====
